---- MODULE Spec2Model ----
(***************************************************************************)
(* dago-node-router: the routing engine (internal/router) and the stream   *)
(* worker (internal/worker) as a state machine.                            *)
(*                                                                         *)
(* Conventions.  A Go pointer is a sequence of length at most one: Nil is  *)
(* the nil pointer and Ptr(x) points to x.  A Go string that the code only *)
(* compares or copies is a TLA+ string; a string the code inspects         *)
(* character by character (a model response, a routes key) is a sequence   *)
(* of one-character strings.  A Go map is a function; its iteration order  *)
(* is an input of the operation that ranges over it.  A Go error returned   *)
(* by the evaluators is a string, "" being nil; an error returned by the   *)
(* router is the chain of its %w wrappings, outermost first, <<>> being    *)
(* nil.                                                                    *)
(***************************************************************************)
EXTENDS Integers, Sequences, FiniteSets, TLC

VARIABLES
    llmClient,      \* Router.llmClient: Nil or Ptr("client")
    call,           \* the last call of Router.Route: Nil or Ptr([state, config, llm, result])
    pc,             \* where the worker process is
    cancelled,      \* Worker.ctx is done (Stop called cancel)
    workStream,     \* the input stream: the payloads appended by the orchestrator
    lastDelivered,  \* the consumer group's last-delivered position on workStream
    pending,        \* the group's pending-entries list: delivered, not acked
    msg,            \* the entry handleMessage is working on (0: none)
    request,        \* the parsed WorkRequest: Nil or Ptr(request)
    loaded,         \* graphState and nodeConfig of processRoutingRequest: Nil or Ptr(..)
    procErr,        \* the error processRoutingRequest is returning ("" none)
    resultStream,   \* entries appended to <resultStream>
    errorStream,    \* entries appended to <resultStream>.errors
    hist,           \* per entry: what the worker did for it
    matchCall,      \* the last direct call of matchLLMResponse: Nil or Ptr(..)
    group,          \* the consumer group on the input stream: "absent" or "present"
    startErr,       \* the error Worker.Start returned (<<>> nil)
    restarts,       \* how many times the worker process has been started again
    lastRead,       \* what the XReadGroup of the loop's current iteration returned
    cache,          \* Evaluator.cache and Engine.cache: per kind, text -> compiled form
    gor,            \* per goroutine: its call of Evaluate or Render in progress
    inserts,        \* per kind and text: insertions into the cache since its last clear
    cacheOps,       \* operations begun on the evaluator and the engine
    helpers,        \* the helper registry of package raymond (process-wide)
    ctorPanicked,   \* a constructor of the process has panicked
    dataCall,       \* the last direct look at renderPrompt's data: Nil or Ptr(..)
    docCall         \* the last routing of a config given as JSON: Nil or Ptr(..)

vars == <<llmClient, call, pc, cancelled, workStream, lastDelivered, pending,
          msg, request, loaded, procErr, resultStream, errorStream, hist,
          matchCall, group, startErr, restarts, lastRead,
          cache, gor, inserts, cacheOps, helpers, ctorPanicked, dataCall,
          docCall>>

\* the variables of the calls of pure functions
pureVars == <<matchCall, cache, gor, inserts, cacheOps, helpers, ctorPanicked,
              dataCall, docCall>>

\* the variables of the evaluator, the template engine and their constructors
cacheVars == <<cache, gor, inserts, cacheOps, helpers, ctorPanicked>>

\* the consumer group, the outcome of Start, the count of restarts, the
\* outcome of the loop's last read
procVars == <<group, startErr, restarts, lastRead>>

workerVars == <<pc, cancelled, workStream, lastDelivered, pending, msg,
                request, loaded, procErr, resultStream, errorStream, hist,
                procVars>>

Nil == <<>>
Ptr(x) == <<x>>
Deref(p) == p[1]

-----------------------------------------------------------------------------
(* Bounds *)

MaxRules == 2       \* longest rules / fast_rules list
MaxEntries == 2     \* entries the orchestrator appends to the input stream
MaxKeys == 3        \* keys of a routes map handed to matchLLMResponse directly
MaxFairEntries == 1 \* entries appended to the input stream in the fair behaviours
MaxRestartEntries == 1  \* entries appended in the behaviours with restarts
MaxRestarts == 1    \* restarts of the worker process
MaxCacheOps == 4    \* operations begun on the evaluator and the template engine

-----------------------------------------------------------------------------
(* Strings inspected by matchLLMResponse *)

LowerChar(c) ==
    CASE c = "Y" -> "y"
      [] c = "E" -> "e"
      [] c = "S" -> "s"
      [] c = "N" -> "n"
      [] c = "O" -> "o"
      [] OTHER -> c

ToLower(s) == [i \in 1..Len(s) |-> LowerChar(s[i])]

IsSpace(c) == c \in {" ", "\n"}

RECURSIVE TrimLeft(_)
TrimLeft(s) ==
    IF s # <<>> /\ IsSpace(Head(s)) THEN TrimLeft(Tail(s)) ELSE s

RECURSIVE TrimRight(_)
TrimRight(s) ==
    IF s # <<>> /\ IsSpace(s[Len(s)]) THEN TrimRight(SubSeq(s, 1, Len(s) - 1)) ELSE s

TrimSpace(s) == TrimRight(TrimLeft(s))

Contains(s, sub) ==
    \E i \in 0..(Len(s) - Len(sub)) : SubSeq(s, i + 1, i + Len(sub)) = sub

\* EqualFold comparing the two strings as they are
EqualFoldExact(a, b) == a = b

EqualFold(a, b) == ToLower(a) = ToLower(b)

\* the first element of order satisfying P, as a set of at most one element
RECURSIVE FirstIn(_, _)
FirstIn(order, ok) ==
    IF order = <<>> THEN {}
    ELSE IF Head(order) \in ok THEN {Head(order)}
    ELSE FirstIn(Tail(order), ok)

\* matchLLMResponse looking the response up as it came, and nothing more
matchLLMResponseExactOnly(response, routes, order) ==
    IF response \in DOMAIN routes
      THEN [target |-> routes[response], matched |-> TRUE]
      ELSE [target |-> "", matched |-> FALSE]

\* Router.matchLLMResponse; order is the iteration order of the two range loops
matchLLMResponse(response, routes, order) ==
    LET normalized == TrimSpace(ToLower(response))
        fold == FirstIn(order, {k \in DOMAIN routes : EqualFold(k, normalized)})
        part == FirstIn(order, {k \in DOMAIN routes : Contains(normalized, ToLower(k))})
    IN  IF normalized \in DOMAIN routes
          THEN [target |-> routes[normalized], matched |-> TRUE]
        ELSE IF fold # {}
          THEN [target |-> routes[CHOOSE k \in fold : TRUE], matched |-> TRUE]
        ELSE IF part # {}
          THEN [target |-> routes[CHOOSE k \in part : TRUE], matched |-> TRUE]
        ELSE [target |-> "", matched |-> FALSE]

-----------------------------------------------------------------------------
(* Expression evaluator and template engine, as the router uses them *)

\* cel.Evaluator.Evaluate on the expressions of the model.  The environment
\* declares the single variable state, so any other root is a compile error;
\* the empty text does not parse.  err = "" is the nil error.
Evaluate(expression, variables) ==
    CASE expression = "true" ->
           [err |-> "", isBool |-> TRUE, val |-> TRUE]
      [] expression = "state.inputs.n > 0" ->
           [err |-> "", isBool |-> TRUE, val |-> variables.state.inputs.n > 0]
      [] expression = "state.inputs.n" ->
           [err |-> "", isBool |-> FALSE, val |-> FALSE]
      [] OTHER ->
           [err |-> "failed to compile expression", isBool |-> FALSE, val |-> FALSE]

\* template.Engine.Render on the templates of the model: one that renders, one
\* with an unclosed block, which does not parse
Render(templateStr, data) ==
    CASE templateStr = "Classify: {{state.inputs.n}}" ->
           [err |-> "", text |-> <<"Classify: ", ToString(data["state"].inputs.n)>>]
      [] templateStr = "" ->
           [err |-> "", text |-> <<>>]
      [] OTHER ->
           [err |-> "failed to compile template", text |-> <<>>]

-----------------------------------------------------------------------------
(* The compile caches of the evaluator and of the template engine *)

\* the evaluator (cel.Evaluator) and the template engine (template.Engine)
Kinds == {"cel", "template"}

\* the goroutines that call the evaluator and the engine of one router
Goroutines == {"g1", "g2"}

\* the texts handed to them: two that compile and one that does not
CacheTexts(k) ==
    IF k = "cel" THEN {"state.inputs.n > 0", "state.inputs.n", "nosuch.x > 1"}
    ELSE {"", "Classify: {{state.inputs.n}}", "{{#if n}}"}

\* the variables of Evaluate and the data of Render
CacheArgs == { [state |-> [inputs |-> [n |-> v]]] : v \in {0, 1} }

\* Evaluate and Render with nothing cached: compile the text, run the result
Uncached(k, text, arg) ==
    IF k = "cel" THEN Evaluate(text, arg) ELSE Render(text, arg)

\* env.Compile and env.Program, raymond.Parse: the error ("" nil) and the
\* compiled form, which is the form of that text
Compile(k, text) ==
    [err |-> Uncached(k, text, CHOOSE a \in CacheArgs : TRUE).err,
     program |-> [src |-> text]]

\* program.Eval and out.ConvertToNative, tmpl.Exec
Exec(k, program, arg) == Uncached(k, program.src, arg)

\* a cache lookup that returns an entry whatever its key
cacheGetAnyKey(c, text) ==
    IF DOMAIN c = {} THEN Nil
    ELSE Ptr(c[CHOOSE t \in DOMAIN c : t # text \/ DOMAIN c = {text}])

\* program, ok := e.cache[expression]: Nil when the text is no key
cacheGet(c, text) ==
    IF text \in DOMAIN c THEN Ptr(c[text]) ELSE Nil

\* a goroutine that is in no call.  Of a call: op, Evaluate or Render
\* ("call") or a Validate ("validate"); sawCached, the text was in the
\* cache when the call began; missed, the lookup under the read lock missed;
\* compiled, the call compiled the text; ClearCache resets sawCached and
\* compiled, which speak of the cache since its last clear; ran, the call
\* ran program.Eval or tmpl.Exec; verr, the error a Validate returned
IdleCall ==
    [pc |-> "idle", op |-> "none", kind |-> "cel", text |-> "", arg |-> Nil,
     out |-> Nil, compiled |-> FALSE, sawCached |-> FALSE, missed |-> FALSE,
     ran |-> FALSE, verr |-> Nil]

\* the helpers registerHelpers registers, in its order
HelperNames ==
    <<"uppercase", "lowercase", "trim", "default", "eq", "ne", "gt", "lt",
      "contains", "join", "len">>

\* raymond.RegisterHelper on the registry reg, which panics when the name is
\* registered already
RegisterHelper(reg, name) ==
    IF reg.panicked \/ name \in reg.helpers
      THEN [panicked |-> TRUE, helpers |-> reg.helpers]
      ELSE [panicked |-> FALSE, helpers |-> reg.helpers \cup {name}]

RECURSIVE registerAll(_, _)
registerAll(reg, names) ==
    IF names = <<>> \/ reg.panicked THEN reg
    ELSE registerAll(RegisterHelper(reg, Head(names)), Tail(names))

\* Engine.registerHelpers on a process whose registry holds registered
registerHelpers(registered) ==
    registerAll([panicked |-> FALSE, helpers |-> registered], HelperNames)

-----------------------------------------------------------------------------
(* internal/router *)

ModeDeterministic == "deterministic"
ModeLLM == "llm"
ModeHybrid == "hybrid"

\* what a call of Route did besides returning: Evaluate calls, Render calls,
\* GenerateCompletion calls
NoFx == [evals |-> 0, renders |-> 0, llmCalls |-> 0]

Decision(target, reasoning, mode, path, fx) ==
    [kind |-> "decision", target_node |-> target, reasoning |-> reasoning,
     mode |-> mode, path_taken |-> path, err |-> <<>>,
     evals |-> fx.evals, renders |-> fx.renders, llmCalls |-> fx.llmCalls]

Failure(err, fx) ==
    [kind |-> "error", target_node |-> "", reasoning |-> <<>>,
     mode |-> "", path_taken |-> "", err |-> err,
     evals |-> fx.evals, renders |-> fx.renders, llmCalls |-> fx.llmCalls]

\* the call is waiting for the model client, which does not answer, under a
\* context that is never done: it does not return
Blocked(fx) ==
    [kind |-> "blocked", target_node |-> "", reasoning |-> <<>>,
     mode |-> "", path_taken |-> "", err |-> <<>>,
     evals |-> fx.evals, renders |-> fx.renders, llmCalls |-> fx.llmCalls]

\* a nil dereference: the call does not return
Panic(fx) ==
    [kind |-> "panic", target_node |-> "", reasoning |-> <<>>,
     mode |-> "", path_taken |-> "", err |-> <<"nil pointer dereference">>,
     evals |-> fx.evals, renders |-> fx.renders, llmCalls |-> fx.llmCalls]

\* detectMode looking at llm_config before fast_rules and llm_fallback
detectModeLLMFirst(config) ==
    IF config.llm_config # Nil THEN ModeLLM
    ELSE IF Len(config.fast_rules) > 0 /\ config.llm_fallback # Nil THEN ModeHybrid
    ELSE ModeDeterministic

detectMode(config) ==
    IF Len(config.fast_rules) > 0 /\ config.llm_fallback # Nil THEN ModeHybrid
    ELSE IF config.llm_config # Nil THEN ModeLLM
    ELSE IF Len(config.rules) > 0 THEN ModeDeterministic
    ELSE ModeDeterministic

\* the first rule of rules failing the checks of the deterministic branch, ""
\* if none
RECURSIVE validateRules(_, _)
validateRules(rules, i) ==
    IF i > Len(rules) THEN ""
    ELSE IF rules[i].condition = "" THEN "rule: condition is required"
    ELSE IF rules[i].target = "" THEN "rule: target is required"
    ELSE validateRules(rules, i + 1)

\* the switch on config.Mode of validateConfig
validateMode(config) ==
    CASE config.mode = ModeDeterministic ->
           IF Len(config.rules) = 0 THEN "deterministic mode requires rules"
           ELSE validateRules(config.rules, 1)
      [] config.mode = ModeLLM ->
           IF config.llm_config = Nil THEN "llm mode requires llm_config"
           ELSE IF Deref(config.llm_config).prompt_template = ""
             THEN "llm_config.prompt_template is required"
           ELSE IF DOMAIN Deref(config.llm_config).routes = {}
             THEN "llm_config.routes is required"
           ELSE ""
      [] config.mode = ModeHybrid ->
           IF Len(config.fast_rules) = 0 THEN "hybrid mode requires fast_rules"
           ELSE IF config.llm_fallback = Nil THEN "hybrid mode requires llm_fallback"
           ELSE IF Deref(config.llm_fallback).prompt_template = ""
             THEN "llm_fallback.prompt_template is required"
           ELSE IF DOMAIN Deref(config.llm_fallback).routes = {}
             THEN "llm_fallback.routes is required"
           ELSE ""
      [] OTHER -> ""

\* validateConfig without its check of the fallback
validateConfigSkipsFallback(cfgPtr) ==
    IF cfgPtr = Nil THEN "config is nil" ELSE validateMode(Deref(cfgPtr))

validateConfig(cfgPtr) ==
    IF cfgPtr = Nil THEN "config is nil"
    ELSE IF Deref(cfgPtr).fallback = "" THEN "fallback route is required"
    ELSE validateMode(Deref(cfgPtr))

\* convertNodeStates: nodeState.Status on a nil *NodeState panics
convertNodeStates(nodeStates) ==
    IF \E id \in DOMAIN nodeStates : nodeStates[id] = Nil
      THEN [panicked |-> TRUE, value |-> <<>>]
      ELSE [panicked |-> FALSE,
            value |-> [id \in DOMAIN nodeStates |->
                         [status |-> Deref(nodeStates[id]).status,
                          output |-> Deref(nodeStates[id]).output,
                          error |-> Deref(nodeStates[id]).error,
                          started_at |-> Deref(nodeStates[id]).started_at,
                          completed_at |-> Deref(nodeStates[id]).completed_at]]]

prepareStateForCEL(state) ==
    LET ns == convertNodeStates(state.node_states) IN
    [panicked |-> ns.panicked,
     vars |-> [state |-> [graph_id |-> state.graph_id, status |-> state.status,
                          inputs |-> state.inputs, node_states |-> ns.value]]]

\* the rule loop giving up at the first rule whose evaluation fails
RECURSIVE ruleLoopStopsAtError(_, _, _)
ruleLoopStopsAtError(rules, i, celState) ==
    IF i > Len(rules) THEN [matched |-> 0, evals |-> Len(rules)]
    ELSE LET out == Evaluate(rules[i].condition, celState) IN
         IF out.err # "" THEN [matched |-> 0, evals |-> i]
         ELSE IF ~out.isBool THEN ruleLoopStopsAtError(rules, i + 1, celState)
         ELSE IF out.val THEN [matched |-> i, evals |-> i]
         ELSE ruleLoopStopsAtError(rules, i + 1, celState)

\* the rule loop of routeDeterministic and of routeHybrid from rule i on:
\* the index of the rule that matched (0: none) and the Evaluate calls made
RECURSIVE ruleLoop(_, _, _)
ruleLoop(rules, i, celState) ==
    IF i > Len(rules) THEN [matched |-> 0, evals |-> Len(rules)]
    ELSE LET out == Evaluate(rules[i].condition, celState) IN
         IF out.err # "" THEN ruleLoop(rules, i + 1, celState)
         ELSE IF ~out.isBool THEN ruleLoop(rules, i + 1, celState)
         ELSE IF out.val THEN [matched |-> i, evals |-> i]
         ELSE ruleLoop(rules, i + 1, celState)

routeDeterministic(state, config) ==
    LET verr == validateConfig(Ptr(config))
        celState == prepareStateForCEL(state)
        loop == ruleLoop(config.rules, 1, celState.vars)
        fx == [NoFx EXCEPT !.evals = loop.evals]
    IN  IF verr # "" THEN Failure(<<"invalid config", verr>>, NoFx)
        ELSE IF celState.panicked THEN Panic(NoFx)
        ELSE IF loop.matched # 0
          THEN Decision(config.rules[loop.matched].target,
                        <<"matched rule ", ToString(loop.matched - 1), ": ",
                          config.rules[loop.matched].condition>>,
                        ModeDeterministic, "fast", fx)
        ELSE Decision(config.fallback, <<"no rules matched">>,
                      ModeDeterministic, "fallback", fx)

\* renderPrompt dropping the error of Render
renderPromptIgnoresError(state, template) ==
    [err |-> "", text |-> Render(template, [state |-> state]).text]

\* the data renderPrompt hands to the template engine: the binding under
\* "state", then every entry of the inputs assigned at the top level
promptData(state) ==
    LET binding == [graph_id |-> state.graph_id, status |-> state.status,
                    inputs |-> state.inputs]
    IN  [k \in {"state"} \cup DOMAIN state.inputs |->
           IF k \in DOMAIN state.inputs THEN state.inputs[k] ELSE binding]

renderPrompt(state, template) == Render(template, promptData(state))

\* callLLM without the type assertion on the response
callLLMAnyType(prompt, oracle) ==
    CASE oracle.kind = "error" ->
           [err |-> "llm completion failed", content |-> <<>>, blocked |-> FALSE]
      [] oracle.kind = "silent" ->
           [err |-> "", content |-> <<>>, blocked |-> TRUE]
      [] OTHER ->
           [err |-> "", content |-> oracle.content, blocked |-> FALSE]

\* oracle is what GenerateCompletion does when it is called.  callLLM hands it
\* the context it was given and sets no deadline of its own, so a client that
\* does not answer keeps the call waiting for as long as that context is not
\* done.
callLLM(prompt, oracle) ==
    CASE oracle.kind = "error" ->
           [err |-> "llm completion failed", content |-> <<>>, blocked |-> FALSE]
      [] oracle.kind = "badtype" ->
           [err |-> "unexpected response type from LLM", content |-> <<>>,
            blocked |-> FALSE]
      [] oracle.kind = "silent" ->
           [err |-> "", content |-> <<>>, blocked |-> TRUE]
      [] OTHER ->
           [err |-> "", content |-> oracle.content, blocked |-> FALSE]

routeLLM(state, config, client, oracle, order) ==
    LET verr == validateConfig(Ptr(config))
        spec == Deref(config.llm_config)
        prompt == renderPrompt(state, spec.prompt_template)
        resp == callLLM(prompt.text, oracle)
        m == matchLLMResponse(resp.content, spec.routes, order)
        fxR == [NoFx EXCEPT !.renders = 1]
        fxL == [NoFx EXCEPT !.renders = 1, !.llmCalls = 1]
    IN  IF verr # "" THEN Failure(<<"invalid config", verr>>, NoFx)
        ELSE IF client = Nil THEN Failure(<<"llm client not configured">>, NoFx)
        ELSE IF prompt.err # "" THEN Failure(<<"failed to render prompt", prompt.err>>, fxR)
        ELSE IF resp.blocked THEN Blocked(fxL)
        ELSE IF resp.err # ""
          THEN Decision(config.fallback, <<"llm call failed: ", resp.err>>,
                        ModeLLM, "fallback", fxL)
        ELSE IF ~m.matched
          THEN Decision(config.fallback,
                        <<"llm response '", "' did not match any route">>,
                        ModeLLM, "fallback", fxL)
        ELSE Decision(m.target, <<"llm classified as: ">>, ModeLLM, "slow", fxL)

\* routeHybrid asking the model before it looks at the result of the fast
\* rules
routeHybridModelFirst(state, config, client, oracle, order) ==
    LET verr == validateConfig(Ptr(config))
        celState == prepareStateForCEL(state)
        loop == ruleLoop(config.fast_rules, 1, celState.vars)
        spec == Deref(config.llm_fallback)
        prompt == renderPrompt(state, spec.prompt_template)
        resp == callLLM(prompt.text, oracle)
        m == matchLLMResponse(resp.content, spec.routes, order)
        fxE == [NoFx EXCEPT !.evals = loop.evals]
        fxL == [fxE EXCEPT !.renders = 1, !.llmCalls = 1]
    IN  IF verr # "" THEN Failure(<<"invalid config", verr>>, NoFx)
        ELSE IF celState.panicked THEN Panic(NoFx)
        ELSE IF /\ client # Nil /\ prompt.err = "" /\ ~resp.blocked
                /\ resp.err = "" /\ m.matched
          THEN Decision(m.target, <<"llm classified as: ">>, ModeHybrid, "slow", fxL)
        ELSE IF loop.matched # 0
          THEN Decision(config.fast_rules[loop.matched].target,
                        <<"matched fast rule ", ToString(loop.matched - 1), ": ",
                          config.fast_rules[loop.matched].condition>>,
                        ModeHybrid, "fast", fxE)
        ELSE Decision(config.fallback, <<"no match">>, ModeHybrid, "fallback", fxE)

routeHybrid(state, config, client, oracle, order) ==
    LET verr == validateConfig(Ptr(config))
        celState == prepareStateForCEL(state)
        loop == ruleLoop(config.fast_rules, 1, celState.vars)
        spec == Deref(config.llm_fallback)
        prompt == renderPrompt(state, spec.prompt_template)
        resp == callLLM(prompt.text, oracle)
        m == matchLLMResponse(resp.content, spec.routes, order)
        fxE == [NoFx EXCEPT !.evals = loop.evals]
        fxR == [fxE EXCEPT !.renders = 1]
        fxL == [fxR EXCEPT !.llmCalls = 1]
    IN  IF verr # "" THEN Failure(<<"invalid config", verr>>, NoFx)
        ELSE IF celState.panicked THEN Panic(NoFx)
        ELSE IF loop.matched # 0
          THEN Decision(config.fast_rules[loop.matched].target,
                        <<"matched fast rule ", ToString(loop.matched - 1), ": ",
                          config.fast_rules[loop.matched].condition>>,
                        ModeHybrid, "fast", fxE)
        ELSE IF client = Nil
          THEN Decision(config.fallback,
                        <<"fast rules did not match and llm client not configured">>,
                        ModeHybrid, "fallback", fxE)
        ELSE IF prompt.err # ""
          THEN Decision(config.fallback, <<"failed to render prompt: ", prompt.err>>,
                        ModeHybrid, "fallback", fxR)
        ELSE IF resp.blocked THEN Blocked(fxL)
        ELSE IF resp.err # ""
          THEN Decision(config.fallback, <<"llm call failed: ", resp.err>>,
                        ModeHybrid, "fallback", fxL)
        ELSE IF ~m.matched
          THEN Decision(config.fallback,
                        <<"llm response '", "' did not match any route">>,
                        ModeHybrid, "fallback", fxL)
        ELSE Decision(m.target, <<"llm classified as: ", " (after fast rules failed)">>,
                      ModeHybrid, "slow", fxL)

\* the mode Route dispatches on: config.Mode after the detection step
effectiveMode(config) ==
    IF config.mode = "" THEN detectMode(config) ELSE config.mode

\* Router.Route.  The logging statement at the top reads config.Mode, so a nil
\* config panics before anything else happens.
Route(state, cfgPtr, client, oracle, order) ==
    IF cfgPtr = Nil THEN Panic(NoFx)
    ELSE LET config == [Deref(cfgPtr) EXCEPT !.mode = effectiveMode(Deref(cfgPtr))] IN
         CASE config.mode = ModeDeterministic -> routeDeterministic(state, config)
           [] config.mode = ModeLLM -> routeLLM(state, config, client, oracle, order)
           [] config.mode = ModeHybrid -> routeHybrid(state, config, client, oracle, order)
           [] OTHER -> Failure(<<"unknown routing mode">>, NoFx)

-----------------------------------------------------------------------------
(* Inputs of Route *)

yes == <<"y", "e", "s">>
no == <<"n", "o">>

RulePool ==
    { [condition |-> "", target |-> "A"],
      [condition |-> "state.inputs.n > 0", target |-> ""],
      [condition |-> "state.inputs.n > 0", target |-> "A"],
      [condition |-> "true", target |-> "B"],
      [condition |-> "nosuch.x > 1", target |-> "C"],
      [condition |-> "state.inputs.n", target |-> "C"] }

RuleLists == UNION { [1..k -> RulePool] : k \in 0..MaxRules }

FewRuleLists ==
    { <<>>, <<[condition |-> "true", target |-> "B"]>>,
      <<[condition |-> "state.inputs.n > 0", target |-> "A"]>> }

Templates == { "", "Classify: {{state.inputs.n}}", "{{#if n}}" }

RouteMaps == { <<>>, (yes :> "Y") @@ (no :> "N"), (yes :> "") }

LLMSpecs ==
    {Nil} \cup { Ptr([prompt_template |-> t, routes |-> r]) :
                   t \in Templates, r \in RouteMaps }

FewLLMSpecs ==
    { Nil, Ptr([prompt_template |-> "Classify: {{state.inputs.n}}",
                routes |-> (yes :> "Y") @@ (no :> "N")]) }

Modes == { "", ModeDeterministic, ModeLLM, ModeHybrid, "semantic" }

Fallbacks == { "", "D" }

\* the four strategy fields: the fields of one strategy range over all their
\* values while the other strategies are absent, and all four are absent or
\* present together in every combination
Absent == [rules |-> <<>>, fast_rules |-> <<>>, llm_config |-> Nil, llm_fallback |-> Nil]

Shapes ==
    { [Absent EXCEPT !.rules = r] : r \in RuleLists }
    \cup { [Absent EXCEPT !.llm_config = c] : c \in LLMSpecs }
    \cup { [Absent EXCEPT !.fast_rules = f, !.llm_fallback = b] :
             f \in RuleLists, b \in FewLLMSpecs }
    \cup { [Absent EXCEPT !.fast_rules = f, !.llm_fallback = b] :
             f \in FewRuleLists, b \in LLMSpecs }
    \cup { [rules |-> r, fast_rules |-> f, llm_config |-> c, llm_fallback |-> b] :
             r \in FewRuleLists, f \in FewRuleLists,
             c \in FewLLMSpecs, b \in FewLLMSpecs }

Configs ==
    { [mode |-> m, rules |-> sh.rules, fast_rules |-> sh.fast_rules,
       llm_config |-> sh.llm_config, llm_fallback |-> sh.llm_fallback,
       fallback |-> fb] : m \in Modes, fb \in Fallbacks, sh \in Shapes }

NodeStateOK ==
    [status |-> "completed", output |-> "out", error |-> "",
     started_at |-> "t0", completed_at |-> "t1"]

\* node_states with one node, or with one null entry
NodeStateMaps == { ("a" :> Ptr(NodeStateOK)), ("a" :> Nil) }

GraphStates ==
    { [graph_id |-> "g1", status |-> "running", inputs |-> [n |-> v],
       node_states |-> ns] : v \in 0..1, ns \in NodeStateMaps }

Responses == { yes, <<" ", "Y", "e", "s", "\n">>, <<"m">> }

HasNullNode(state) == \E id \in DOMAIN state.node_states : state.node_states[id] = Nil

\* what the model client does when called: it returns an error (the error of
\* a context that is done included), a value of another type, or a response,
\* or it does not answer while the context of the call is not done
Oracles ==
    { [kind |-> "error", content |-> <<>>], [kind |-> "badtype", content |-> <<>>],
      [kind |-> "silent", content |-> <<>>] }
    \cup { [kind |-> "response", content |-> r] : r \in Responses }

\* the routes map a call of Route with this config can range over
routesOf(cfgPtr) ==
    IF cfgPtr = Nil THEN <<>>
    ELSE LET config == Deref(cfgPtr) m == effectiveMode(config) IN
         IF m = ModeLLM /\ config.llm_config # Nil
           THEN Deref(config.llm_config).routes
         ELSE IF m = ModeHybrid /\ config.llm_fallback # Nil
           THEN Deref(config.llm_fallback).routes
         ELSE <<>>

\* the iteration orders of a map
Orders(m) ==
    { o \in [1..Cardinality(DOMAIN m) -> DOMAIN m] :
        \A i, j \in DOMAIN o : o[i] = o[j] => i = j }

-----------------------------------------------------------------------------
(* Work items and the state store *)

\* the S1 config: one rule on the inputs, fallback D
DetConfig ==
    [Absent EXCEPT !.rules = <<[condition |-> "state.inputs.n > 0", target |-> "A"]>>]
      @@ [mode |-> ModeDeterministic, fallback |-> "D"]

LLMConfig ==
    [Absent EXCEPT !.llm_config =
        Ptr([prompt_template |-> "Classify: {{state.inputs.n}}",
             routes |-> (yes :> "Y") @@ (no :> "N")])]
      @@ [mode |-> ModeLLM, fallback |-> "D"]

\* the zero value of NodeConfig
ZeroConfig == Absent @@ [mode |-> "", fallback |-> ""]

\* the config member of a work item as JSON: an object that fits NodeConfig,
\* an object with a member of the wrong type, or null (which parses to the zero
\* NodeConfig, a config that validation refuses)
RawConfigs ==
    { [shape |-> "object", value |-> DetConfig],
      [shape |-> "object", value |-> LLMConfig],
      [shape |-> "mistyped", value |-> ZeroConfig],
      [shape |-> "null", value |-> ZeroConfig] }

\* the JSON text of a work item: well formed or not
WorkJSON(wellFormed, executionID, raw) ==
    [wellFormed |-> wellFormed, execution_id |-> executionID,
     node_id |-> "router-1", config |-> raw]

\* the values of a stream entry: data is absent, or is a string
Payloads ==
    { [data |-> Nil],
      [data |-> Ptr(WorkJSON(FALSE, "", [shape |-> "null", value |-> ZeroConfig]))] }
    \cup { [data |-> Ptr(WorkJSON(TRUE, "exec-1", raw))] : raw \in RawConfigs }
    \cup { [data |-> Ptr(WorkJSON(TRUE, id, [shape |-> "object", value |-> DetConfig]))] :
             id \in {"exec-none", "exec-corrupt", "exec-mistyped", "exec-null"} }

StoredState(ns) ==
    [graph_id |-> "", status |-> "running", inputs |-> [n |-> 1], node_states |-> ns]

\* the key-value store: what is under graph:state:<id>.  json: the value
\* parses as JSON; fits: it unmarshals into GraphState
StateStore ==
    [id \in {"exec-1", "exec-null", "exec-corrupt", "exec-mistyped"} |->
       CASE id = "exec-1" ->
              [json |-> TRUE, fits |-> TRUE, state |-> StoredState("a" :> Ptr(NodeStateOK))]
         [] id = "exec-null" ->
              [json |-> TRUE, fits |-> TRUE, state |-> StoredState("a" :> Nil)]
         [] id = "exec-corrupt" ->
              [json |-> FALSE, fits |-> FALSE, state |-> StoredState("a" :> Nil)]
         [] OTHER ->
              [json |-> TRUE, fits |-> FALSE, state |-> StoredState("a" :> Nil)]]

-----------------------------------------------------------------------------
(* internal/worker and cmd/router-worker *)

\* Worker.parseWorkRequest
parseWorkRequest(values) ==
    IF values.data = Nil
      THEN [err |-> <<"missing or invalid 'data' field">>, request |-> Nil]
    ELSE IF ~Deref(values.data).wellFormed
      THEN [err |-> <<"failed to unmarshal work request">>, request |-> Nil]
    ELSE [err |-> <<>>,
          request |-> Ptr([ExecutionID |-> Deref(values.data).execution_id,
                           NodeID |-> Deref(values.data).node_id,
                           Config |-> Deref(values.data).config])]

\* RedisStateStore.Load; redisUp: the GET reaches the store
Load(executionID, redisUp) ==
    IF ~redisUp THEN [err |-> <<"failed to load state">>, data |-> Nil]
    ELSE IF executionID \notin DOMAIN StateStore
      THEN [err |-> <<"state not found for execution">>, data |-> Nil]
    ELSE IF ~StateStore[executionID].json
      THEN [err |-> <<"failed to unmarshal state">>, data |-> Nil]
    ELSE [err |-> <<>>, data |-> Ptr(StateStore[executionID])]

\* Worker.convertToGraphState
convertToGraphState(graphID, stateData) ==
    IF ~stateData.fits
      THEN [err |-> <<"failed to unmarshal to GraphState">>, state |-> Nil]
    ELSE [err |-> <<>>,
          state |-> Ptr(IF stateData.state.graph_id = ""
                          THEN [stateData.state EXCEPT !.graph_id = graphID]
                          ELSE stateData.state)]

\* Worker.parseNodeConfig: a JSON null leaves the zero NodeConfig
parseNodeConfig(raw) ==
    IF raw.shape = "mistyped"
      THEN [err |-> <<"failed to unmarshal config">>, config |-> Nil]
    ELSE IF raw.shape = "null" THEN [err |-> <<>>, config |-> Ptr(ZeroConfig)]
    ELSE [err |-> <<>>, config |-> Ptr(raw.value)]

\* the part of processRoutingRequest before the call of Route
prepareRouting(req, redisUp) ==
    LET ld == Load(req.ExecutionID, redisUp)
        cv == convertToGraphState(req.ExecutionID, Deref(ld.data))
        nc == parseNodeConfig(req.Config)
    IN  IF ld.err # <<>> THEN [err |-> <<"failed to load state">> \o ld.err, args |-> Nil]
        ELSE IF cv.err # <<>>
          THEN [err |-> <<"failed to convert state">> \o cv.err, args |-> Nil]
        ELSE IF nc.err # <<>>
          THEN [err |-> <<"failed to parse node config">> \o nc.err, args |-> Nil]
        ELSE [err |-> <<>>, args |-> Ptr([state |-> Deref(cv.state), config |-> nc.config])]

DecisionRecord(req, res) ==
    [execution_id |-> req.ExecutionID, node_id |-> req.NodeID,
     target_node |-> res.target_node, reasoning |-> res.reasoning,
     mode |-> res.mode, path_taken |-> res.path_taken]

ErrorRecord(req, err) ==
    [execution_id |-> req.ExecutionID, node_id |-> req.NodeID, error |-> err]

-----------------------------------------------------------------------------
(* State machine *)

\* per entry: appends to the result stream and to the error stream, XAck
\* calls issued, XAck calls that reached the broker, whether an XAdd for the
\* entry failed, whether the state store failed to answer the Load, whether
\* the broker failed an XAdd or XAck made under a context that was not done,
\* whether handleMessage was working on the entry when Stop cancelled, and
\* whether a Load or a model call for the entry was answered after that, how
\* many times XReadGroup returned the entry, the step of
\* processRoutingRequest that failed ("" none), and whether Route was called
NoHist ==
    [res |-> 0, err |-> 0, ack |-> 0, acked |-> 0,
     addFailed |-> FALSE, loadFailed |-> FALSE,
     brokerFailed |-> FALSE, inFlightAtStop |-> FALSE, ranCancelled |-> FALSE,
     reads |-> 0, failure |-> "", routed |-> FALSE]

Init ==
    /\ llmClient \in {Nil, Ptr("client")}
    /\ call = Nil
    /\ pc = "new"
    /\ cancelled = FALSE
    /\ workStream = <<>>
    /\ lastDelivered = 0
    /\ pending = {}
    /\ msg = 0
    /\ request = Nil
    /\ loaded = Nil
    /\ procErr = <<>>
    /\ resultStream = <<>>
    /\ errorStream = <<>>
    /\ hist = [e \in 1..MaxEntries |-> NoHist]
    /\ matchCall = Nil
    /\ group \in {"absent", "present"}
    /\ startErr = <<>>
    /\ restarts = 0
    /\ lastRead = "none"
    /\ cache = [k \in Kinds |-> <<>>]
    /\ gor = [g \in Goroutines |-> IdleCall]
    /\ inserts = [k \in Kinds |-> [t \in CacheTexts(k) |-> 0]]
    /\ cacheOps = 0
    /\ helpers = registerHelpers({}).helpers
    /\ ctorPanicked = FALSE
    /\ dataCall = Nil
    /\ docCall = Nil

\* what a call of Route leaves in call: its arguments, what the model client
\* did if it was called, and the outcome
CallRecord(state, cfgPtr, oracle, res) ==
    Ptr([state |-> state, config |-> cfgPtr,
         llm |-> IF res.llmCalls > 0 THEN Ptr(oracle) ELSE Nil,
         result |-> res])

\* a caller calls Router.Route; a behaviour looks at one call
RouteCall ==
    /\ call = Nil
    /\ \E state \in GraphStates, cfgPtr \in {Nil} \cup {Ptr(c) : c \in Configs},
          oracle \in Oracles :
         \E order \in Orders(routesOf(cfgPtr)) :
            call' = CallRecord(state, cfgPtr, oracle,
                               Route(state, cfgPtr, llmClient, oracle, order))
    /\ UNCHANGED <<pureVars, procVars, llmClient, workerVars>>

RouterNext == RouteCall

RouterSpec == Init /\ [][RouterNext]_vars

\* the keys and the answers of the direct calls of matchLLMResponse: keys that
\* differ in case only, a key inside another, the empty key
KeyPool ==
    { yes, <<"Y", "e", "s">>, <<"Y", "E", "S">>, no, <<"y", "e">>, <<>> }

\* each key routes to a target of its own
KeyTarget ==
    (yes :> "T1") @@ (<<"Y", "e", "s">> :> "T2") @@ (<<"Y", "E", "S">> :> "T3")
      @@ (no :> "T4") @@ (<<"y", "e">> :> "T5") @@ (<<>> :> "T6")

MatchRouteMaps ==
    { [k \in S |-> KeyTarget[k]] :
        S \in { T \in SUBSET KeyPool : Cardinality(T) \in 1..MaxKeys } }

MatchResponses ==
    { yes, <<"Y", "e", "s">>, <<" ", "Y", "E", "S", "\n">>, no,
      <<"y", "e", "s", " ", "n", "o">>, <<"m">>, <<>> }

\* the llm config around a routes map
MatchConfig(routes) ==
    [LLMConfig EXCEPT !.llm_config =
        Ptr([prompt_template |-> "Classify: {{state.inputs.n}}", routes |-> routes])]

MatchState == CHOOSE st \in GraphStates : st.inputs.n = 0 /\ ~HasNullNode(st)

\* matchLLMResponse is applied to a response and a routes map, and Route is
\* called in llm mode with the same routes map and a model client that
\* answers with the response
MatchCall ==
    /\ matchCall = Nil
    /\ \E response \in MatchResponses, routes \in MatchRouteMaps :
         \E order \in Orders(routes) :
            matchCall' =
              Ptr([response |-> response, routes |-> routes, order |-> order,
                   out |-> matchLLMResponse(response, routes, order),
                   result |-> Route(MatchState, Ptr(MatchConfig(routes)), llmClient,
                                    [kind |-> "response", content |-> response],
                                    order)])
    /\ UNCHANGED <<llmClient, call, workerVars, cacheVars, dataCall, docCall>>

MatchNext == MatchCall

MatchSpec == Init /\ [][MatchNext]_vars

\* the keys of the inputs of the states whose template data is looked at
DataKeys == {"n", "topic", "state"}

\* the values of those inputs: JSON scalars, and a JSON object that has a
\* field inputs
DataValues ==
    { [scalar |-> 0], [scalar |-> 1],
      [inputs |-> [n |-> [scalar |-> 1], topic |-> [scalar |-> 0]]] }

DataStates ==
    { [graph_id |-> id, status |-> "running", inputs |-> inp,
       node_states |-> ("a" :> Ptr(NodeStateOK))] :
        id \in {"g1", "g2"},
        inp \in UNION { [ks -> DataValues] : ks \in SUBSET DataKeys } }

\* a Handlebars path resolved from value v, field by field: Nil when a field
\* is missing, Ptr of the value it leads to otherwise
RECURSIVE Resolve(_, _)
Resolve(v, path) ==
    IF path = <<>> THEN Ptr(v)
    ELSE IF Head(path) \in DOMAIN v THEN Resolve(v[Head(path)], Tail(path))
    ELSE Nil

\* renderPrompt builds the template data of a state, prepareStateForCEL the
\* variables of the evaluator
DataCall ==
    /\ dataCall = Nil
    /\ \E state \in DataStates :
         dataCall' = Ptr([state |-> state, data |-> promptData(state),
                          celVars |-> prepareStateForCEL(state).vars])
    /\ UNCHANGED <<llmClient, call, matchCall, docCall, workerVars, cacheVars>>

DataNext == DataCall

\* the template data of every state
DataSpec == Init /\ [][DataNext]_vars

\* routing configs as the JSON objects a work item carries: the llm config
\* with prompt_template and routes as members of the config itself, the llm
\* config with both inside a member llm_config, and a deterministic config
JSONConfigs ==
    { [mode |-> ModeLLM, prompt_template |-> "Classify: {{state.inputs.n}}",
       routes |-> (yes :> "Y") @@ (no :> "N"), fallback |-> "D"],
      [mode |-> ModeLLM,
       llm_config |-> Ptr([prompt_template |-> "Classify: {{state.inputs.n}}",
                           routes |-> (yes :> "Y") @@ (no :> "N")]),
       fallback |-> "D"],
      [mode |-> ModeDeterministic,
       rules |-> <<[condition |-> "state.inputs.n > 0", target |-> "A"]>>,
       fallback |-> "D"] }

\* json.Unmarshal into a NodeConfig: the members named by the json tags of
\* the struct are taken, every other member is ignored, and a field with no
\* member keeps its zero value
unmarshalNodeConfig(obj) ==
    [f \in DOMAIN ZeroConfig |-> IF f \in DOMAIN obj THEN obj[f] ELSE ZeroConfig[f]]

\* a config given as JSON is parsed as parseNodeConfig parses it and routed
DocCall ==
    /\ docCall = Nil
    /\ \E obj \in JSONConfigs, state \in GraphStates, oracle \in Oracles :
         LET cfgPtr == Ptr(unmarshalNodeConfig(obj)) IN
           \E order \in Orders(routesOf(cfgPtr)) :
              docCall' = Ptr([json |-> obj, state |-> state, config |-> cfgPtr,
                              llm |-> oracle,
                              result |-> Route(state, cfgPtr, llmClient, oracle, order)])
    /\ UNCHANGED <<llmClient, call, matchCall, dataCall, workerVars, cacheVars>>

DocNext == DocCall

\* the routing of configs given as JSON
DocSpec == Init /\ [][DocNext]_vars

\* what the cache actions leave alone
notCache == <<llmClient, call, matchCall, dataCall, docCall, workerVars>>

\* a goroutine enters Evaluate or Render
CallBegin(g) ==
    /\ ~ctorPanicked
    /\ gor[g].pc = "idle"
    /\ cacheOps < MaxCacheOps
    /\ cacheOps' = cacheOps + 1
    /\ \E k \in Kinds :
         \E text \in CacheTexts(k), arg \in CacheArgs :
            gor' = [gor EXCEPT ![g] =
                      [pc |-> "rlock", op |-> "call", kind |-> k, text |-> text,
                       arg |-> Ptr(arg), out |-> Nil, compiled |-> FALSE,
                       sawCached |-> text \in DOMAIN cache[k], missed |-> FALSE,
                       ran |-> FALSE, verr |-> Nil]]
    /\ UNCHANGED <<notCache, cache, inserts, helpers, ctorPanicked>>

\* getProgram, getTemplate: the lookup under the read lock
CacheLookup(g) ==
    /\ ~ctorPanicked
    /\ gor[g].pc = "rlock"
    /\ LET c == gor[g]
           found == cacheGet(cache[c.kind], c.text)
       IN  gor' = [gor EXCEPT ![g] =
                     IF found # Nil
                       THEN [c EXCEPT !.pc = "done", !.ran = TRUE,
                                      !.out = Ptr(Exec(c.kind, Deref(found), Deref(c.arg)))]
                       ELSE [c EXCEPT !.pc = "lock", !.missed = TRUE]]
    /\ UNCHANGED <<notCache, cache, inserts, cacheOps, helpers, ctorPanicked>>

\* getProgram compiling and inserting under the write lock without looking
\* the text up again
CompileAndInsertNoRecheck(g) ==
    /\ ~ctorPanicked
    /\ gor[g].pc = "lock"
    /\ LET c == gor[g]
           compiled == Compile(c.kind, c.text)
       IN  IF compiled.err # ""
             THEN /\ gor' = [gor EXCEPT ![g] =
                               [c EXCEPT !.pc = "done",
                                         !.out = Ptr(Uncached(c.kind, c.text, Deref(c.arg)))]]
                  /\ UNCHANGED <<cache, inserts>>
             ELSE /\ cache' = [cache EXCEPT ![c.kind] =
                                 (c.text :> compiled.program) @@ @]
                  /\ inserts' = [inserts EXCEPT ![c.kind][c.text] = @ + 1]
                  /\ gor' = [gor EXCEPT ![g] =
                               [c EXCEPT !.pc = "done", !.compiled = TRUE, !.ran = TRUE,
                                         !.out = Ptr(Exec(c.kind, compiled.program,
                                                          Deref(c.arg)))]]
    /\ UNCHANGED <<notCache, cacheOps, helpers, ctorPanicked>>

\* getProgram, getTemplate: under the write lock, the lookup again, then
\* compile and insert; a text that does not compile is not inserted
CompileAndInsert(g) ==
    /\ ~ctorPanicked
    /\ gor[g].pc = "lock"
    /\ LET c == gor[g]
           found == cacheGet(cache[c.kind], c.text)
           compiled == Compile(c.kind, c.text)
       IN  IF found # Nil
             THEN /\ gor' = [gor EXCEPT ![g] =
                               [c EXCEPT !.pc = "done", !.ran = TRUE,
                                         !.out = Ptr(Exec(c.kind, Deref(found), Deref(c.arg)))]]
                  /\ UNCHANGED <<cache, inserts>>
           ELSE IF compiled.err # ""
             THEN /\ gor' = [gor EXCEPT ![g] =
                               [c EXCEPT !.pc = "done",
                                         !.out = Ptr(Uncached(c.kind, c.text, Deref(c.arg)))]]
                  /\ UNCHANGED <<cache, inserts>>
             ELSE /\ cache' = [cache EXCEPT ![c.kind] =
                                 (c.text :> compiled.program) @@ @]
                  /\ inserts' = [inserts EXCEPT ![c.kind][c.text] = @ + 1]
                  /\ gor' = [gor EXCEPT ![g] =
                               [c EXCEPT !.pc = "done", !.compiled = TRUE, !.ran = TRUE,
                                         !.out = Ptr(Exec(c.kind, compiled.program,
                                                          Deref(c.arg)))]]
    /\ UNCHANGED <<notCache, cacheOps, helpers, ctorPanicked>>

\* Evaluate or Render has returned to its caller
CallReturn(g) ==
    /\ ~ctorPanicked
    /\ gor[g].pc = "done"
    /\ gor' = [gor EXCEPT ![g] = IdleCall]
    /\ UNCHANGED <<notCache, cache, inserts, cacheOps, helpers, ctorPanicked>>

\* a Validate that goes through getProgram, getTemplate: the compiled form
\* of a text that compiles is left in the cache
ValidateCallThroughCache(g) ==
    /\ ~ctorPanicked
    /\ gor[g].pc = "idle"
    /\ cacheOps < MaxCacheOps
    /\ cacheOps' = cacheOps + 1
    /\ \E k \in Kinds :
         \E text \in CacheTexts(k) :
            LET compiled == Compile(k, text) IN
              /\ gor' = [gor EXCEPT ![g] =
                           [IdleCall EXCEPT !.pc = "done", !.op = "validate",
                                            !.kind = k, !.text = text,
                                            !.verr = Ptr(compiled.err)]]
              /\ cache' = IF compiled.err = ""
                            THEN [cache EXCEPT ![k] = (text :> compiled.program) @@ @]
                            ELSE cache
    /\ UNCHANGED <<notCache, inserts, helpers, ctorPanicked>>

\* ValidateExpression, ValidateTemplate: env.Compile, raymond.Parse; the
\* error is returned, the compiled form is dropped, no cache is touched
ValidateCall(g) ==
    /\ ~ctorPanicked
    /\ gor[g].pc = "idle"
    /\ cacheOps < MaxCacheOps
    /\ cacheOps' = cacheOps + 1
    /\ \E k \in Kinds :
         \E text \in CacheTexts(k) :
            gor' = [gor EXCEPT ![g] =
                      [IdleCall EXCEPT !.pc = "done", !.op = "validate",
                                       !.kind = k, !.text = text,
                                       !.verr = Ptr(Compile(k, text).err)]]
    /\ UNCHANGED <<notCache, cache, inserts, helpers, ctorPanicked>>

\* a ClearCache that leaves the entries where they are
ClearCacheCallKeepsEntries(g) ==
    /\ ~ctorPanicked
    /\ gor[g].pc = "idle"
    /\ cacheOps < MaxCacheOps
    /\ cacheOps' = cacheOps + 1
    /\ UNCHANGED <<notCache, cache, inserts, gor, helpers, ctorPanicked>>

\* ClearCache: under the write lock, the cache becomes a new empty map
ClearCacheCall(g) ==
    /\ ~ctorPanicked
    /\ gor[g].pc = "idle"
    /\ cacheOps < MaxCacheOps
    /\ cacheOps' = cacheOps + 1
    /\ \E k \in Kinds :
         /\ cache' = [cache EXCEPT ![k] = <<>>]
         /\ inserts' = [inserts EXCEPT ![k] = [t \in CacheTexts(k) |-> 0]]
         /\ gor' = [h \in Goroutines |->
                      IF gor[h].kind = k
                        THEN [gor[h] EXCEPT !.sawCached = FALSE, !.compiled = FALSE]
                      ELSE gor[h]]
    /\ UNCHANGED <<notCache, helpers, ctorPanicked>>

\* NewRouter in the process that has its router: NewEvaluator, then NewEngine
\* with registerHelpers on the registry of the process
NewRouterCall(g) ==
    /\ ~ctorPanicked
    /\ gor[g].pc = "idle"
    /\ cacheOps < MaxCacheOps
    /\ cacheOps' = cacheOps + 1
    /\ LET reg == registerHelpers(helpers) IN
         /\ helpers' = reg.helpers
         /\ ctorPanicked' = reg.panicked
    /\ UNCHANGED <<notCache, cache, gor, inserts>>

CacheNext ==
    \E g \in Goroutines :
       \/ CallBegin(g)
       \/ CacheLookup(g)
       \/ CompileAndInsert(g)
       \/ CallReturn(g)
       \/ ValidateCall(g)
       \/ ClearCacheCall(g)
       \/ NewRouterCall(g)

\* goroutines calling the evaluator and the template engine of one router
CacheSpec == Init /\ [][CacheNext]_vars

\* the contexts of the worker's network calls: Worker.ctx, which Stop cancels,
\* and the context processRoutingRequest makes for Load and Route
RootCtx == "w.ctx"
RequestCtx == "context.Background()"

Done(ctx) == ctx = RootCtx /\ cancelled

\* the outcomes of a call to the broker or the store under ctx: ok or not; a
\* call under a context that is done fails
NetOutcomes(ctx) == IF Done(ctx) THEN {FALSE} ELSE BOOLEAN

\* the outcomes of a model call under ctx
ModelOutcomes(ctx) ==
    IF Done(ctx) THEN { o \in Oracles : o.kind = "error" } ELSE Oracles

\* the orchestrator appends a work item of pool to the input stream, of at
\* most n
PublishFrom(pool, n) ==
    /\ Len(workStream) < n
    /\ \E values \in pool : workStream' = Append(workStream, values)
    /\ UNCHANGED <<pureVars, procVars, llmClient, call, pc, cancelled, lastDelivered, pending, msg,
                   request, loaded, procErr, resultStream, errorStream, hist>>

PublishUpTo(n) == PublishFrom(Payloads, n)

Publish == PublishUpTo(MaxEntries)

\* the error text of the broker when the group to create exists
BusyGroup == "BUSYGROUP Consumer Group name already exists"

\* what XGroupCreateMkStream answers: OK, the error of an existing group, or
\* the error of a broker that cannot be reached
GroupCreateReplies ==
    IF group = "present" THEN {BusyGroup, "connection refused"}
    ELSE {"OK", "connection refused"}

\* ensureConsumerGroup treating the answer of an existing group as a failure
ensureConsumerGroupStrict(reply) ==
    IF reply = "OK" THEN <<>> ELSE <<"failed to create consumer group", reply>>

\* ensureConsumerGroup, given the answer to XGroupCreateMkStream
ensureConsumerGroup(reply) ==
    IF reply = "OK" THEN <<>>
    ELSE IF reply = BusyGroup THEN <<>>
    ELSE <<"failed to create consumer group", reply>>

\* Worker.Start: ensureConsumerGroup, then the consumer loop is started
Start ==
    /\ pc = "new"
    /\ \E reply \in GroupCreateReplies :
         LET err == ensureConsumerGroup(reply) IN
           /\ group' = IF reply = "OK" THEN "present" ELSE group
           /\ startErr' = IF err = <<>> THEN <<>>
                          ELSE <<"failed to ensure consumer group">> \o err
           /\ pc' = IF err = <<>> THEN "loop" ELSE "startFailed"
    /\ UNCHANGED <<pureVars, restarts, lastRead, llmClient, call, cancelled,
                   workStream, lastDelivered, pending, msg, request, loaded,
                   procErr, resultStream, errorStream, hist>>

\* processWork without the Done case of its select
LoopSelectIgnoresDone ==
    /\ pc = "loop"
    /\ pc' = "read"
    /\ lastRead' = "none"
    /\ UNCHANGED <<pureVars, group, startErr, restarts, llmClient, call, cancelled,
                   workStream, lastDelivered, pending, msg, request, loaded,
                   procErr, resultStream, errorStream, hist>>

\* processWork: the select at the top of the loop
LoopSelect ==
    /\ pc = "loop"
    /\ pc' = IF cancelled THEN "stopped" ELSE "read"
    /\ lastRead' = "none"
    /\ UNCHANGED <<pureVars, group, startErr, restarts, llmClient, call, cancelled,
                   workStream, lastDelivered, pending, msg, request, loaded,
                   procErr, resultStream, errorStream, hist>>

\* processWork returning from the loop when XReadGroup returns redis.Nil or an
\* error
ReadNothingEndsLoop ==
    /\ pc = "read"
    /\ pc' = "stopped"
    /\ lastRead' = "nothing"
    /\ UNCHANGED <<pureVars, group, startErr, restarts, llmClient, call, cancelled,
                   workStream, lastDelivered, pending, msg, request, loaded,
                   procErr, resultStream, errorStream, hist>>

\* processWork: XReadGroup returns redis.Nil, or an error followed by the
\* one-second sleep; a call under the cancelled context fails
ReadNothing ==
    /\ pc = "read"
    /\ pc' = "loop"
    /\ lastRead' = "nothing"
    /\ UNCHANGED <<pureVars, group, startErr, restarts, llmClient, call, cancelled,
                   workStream, lastDelivered, pending, msg, request, loaded,
                   procErr, resultStream, errorStream, hist>>

\* processWork reading at position "0" before ">": XReadGroup returns an
\* entry of the consumer's pending-entries list when there is one
ReadDeliverFromPending ==
    /\ pc = "read"
    /\ ~cancelled
    /\ \/ /\ pending # {}
          /\ \E e \in pending :
               /\ msg' = e
               /\ hist' = [hist EXCEPT ![e].reads = @ + 1]
          /\ UNCHANGED <<lastDelivered, pending>>
       \/ /\ pending = {}
          /\ lastDelivered < Len(workStream)
          /\ lastDelivered' = lastDelivered + 1
          /\ pending' = pending \cup {lastDelivered + 1}
          /\ msg' = lastDelivered + 1
          /\ hist' = [hist EXCEPT ![lastDelivered + 1].reads = @ + 1]
    /\ pc' = "parse"
    /\ lastRead' = "entry"
    /\ UNCHANGED <<pureVars, group, startErr, restarts, llmClient, call, cancelled,
                   workStream, request, loaded, procErr, resultStream, errorStream>>

\* processWork: XReadGroup delivers the next new entry, which enters the
\* pending-entries list; handleMessage starts on it
ReadDeliver ==
    /\ pc = "read"
    /\ ~cancelled
    /\ lastDelivered < Len(workStream)
    /\ lastDelivered' = lastDelivered + 1
    /\ pending' = pending \cup {lastDelivered + 1}
    /\ msg' = lastDelivered + 1
    /\ hist' = [hist EXCEPT ![lastDelivered + 1].reads = @ + 1]
    /\ pc' = "parse"
    /\ lastRead' = "entry"
    /\ UNCHANGED <<pureVars, group, startErr, restarts, llmClient, call, cancelled,
                   workStream, request, loaded, procErr, resultStream, errorStream>>

\* handleMessage: parseWorkRequest; on failure the entry is only acknowledged
HandleParse ==
    /\ pc = "parse"
    /\ LET parsed == parseWorkRequest(workStream[msg]) IN
         /\ request' = parsed.request
         /\ pc' = IF parsed.err # <<>> THEN "ack" ELSE "load"
    /\ UNCHANGED <<pureVars, procVars, llmClient, call, cancelled, workStream, lastDelivered, pending,
                   msg, loaded, procErr, resultStream, errorStream, hist>>

\* processRoutingRequest: Load, convertToGraphState, parseNodeConfig
HandleLoad ==
    /\ pc = "load"
    /\ \E redisUp \in NetOutcomes(RequestCtx) :
         LET prep == prepareRouting(Deref(request), redisUp) IN
           /\ loaded' = prep.args
           /\ procErr' = prep.err
           /\ pc' = IF prep.err # <<>> THEN "publishError" ELSE "route"
           /\ hist' = [hist EXCEPT ![msg].failure =
                                     IF prep.err # <<>> THEN prep.err[1] ELSE "",
                                   ![msg].loadFailed = ~redisUp,
                                   ![msg].ranCancelled = @ \/ (cancelled /\ redisUp)]
    /\ UNCHANGED <<pureVars, procVars, llmClient, call, cancelled, workStream, lastDelivered, pending,
                   msg, request, resultStream, errorStream>>

\* processRoutingRequest: the call of Route; a panic ends the process, and a
\* call that does not return keeps handleMessage, and the loop, where they are
HandleRoute ==
    /\ pc = "route"
    /\ \E oracle \in ModelOutcomes(RequestCtx) :
         \E order \in Orders(routesOf(Deref(loaded).config)) :
           LET res == Route(Deref(loaded).state, Deref(loaded).config,
                            llmClient, oracle, order)
           IN  /\ call' = CallRecord(Deref(loaded).state, Deref(loaded).config,
                                     oracle, res)
               /\ procErr' = IF res.kind = "error"
                               THEN <<"routing failed">> \o res.err ELSE <<>>
               /\ pc' = CASE res.kind = "panic" -> "crashed"
                          [] res.kind = "blocked" -> "blocked"
                          [] res.kind = "error" -> "publishError"
                          [] OTHER -> "publishDecision"
               /\ hist' = [hist EXCEPT ![msg].routed = TRUE,
                                       ![msg].failure =
                                         IF res.kind = "error" THEN "routing failed" ELSE @,
                                       ![msg].ranCancelled =
                             @ \/ (cancelled /\ res.llmCalls > 0 /\ oracle.kind # "error")]
    /\ UNCHANGED <<pureVars, procVars, llmClient, cancelled, workStream, lastDelivered, pending, msg,
                   request, loaded, resultStream, errorStream>>

\* XAdd, XAck under Worker.ctx: fails once the context is cancelled, and may
\* fail at the broker
BrokerOutcomes == NetOutcomes(RootCtx)

\* a failed publishDecision that is not handed to publishError
HandlePublishDecisionNoErrorRecord ==
    /\ pc = "publishDecision"
    /\ \E ok \in BrokerOutcomes :
         IF ok
           THEN /\ resultStream' =
                     Append(resultStream, DecisionRecord(Deref(request), Deref(call).result))
                /\ hist' = [hist EXCEPT ![msg].res = @ + 1]
           ELSE /\ hist' = [hist EXCEPT ![msg].addFailed = TRUE,
                                        ![msg].failure = "failed to publish decision",
                                        ![msg].brokerFailed = @ \/ ~cancelled]
                /\ UNCHANGED resultStream
    /\ procErr' = <<>>
    /\ pc' = "ack"
    /\ UNCHANGED <<pureVars, procVars, llmClient, call, cancelled, workStream, lastDelivered, pending,
                   msg, request, loaded, errorStream>>

\* publishDecision: XAdd to the result stream
HandlePublishDecision ==
    /\ pc = "publishDecision"
    /\ \E ok \in BrokerOutcomes :
         IF ok
           THEN /\ resultStream' =
                     Append(resultStream, DecisionRecord(Deref(request), Deref(call).result))
                /\ hist' = [hist EXCEPT ![msg].res = @ + 1]
                /\ procErr' = <<>>
                /\ pc' = "ack"
           ELSE /\ hist' = [hist EXCEPT ![msg].addFailed = TRUE,
                                        ![msg].failure = "failed to publish decision",
                                        ![msg].brokerFailed = @ \/ ~cancelled]
                /\ procErr' = <<"failed to publish decision", "failed to publish to stream">>
                /\ pc' = "publishError"
                /\ UNCHANGED resultStream
    /\ UNCHANGED <<pureVars, procVars, llmClient, call, cancelled, workStream, lastDelivered, pending,
                   msg, request, loaded, errorStream>>

\* handleMessage: publishError, XAdd to the error stream; a failure is logged
HandlePublishError ==
    /\ pc = "publishError"
    /\ \E ok \in BrokerOutcomes :
         IF ok
           THEN /\ errorStream' =
                     Append(errorStream, ErrorRecord(Deref(request), procErr))
                /\ hist' = [hist EXCEPT ![msg].err = @ + 1]
           ELSE /\ hist' = [hist EXCEPT ![msg].addFailed = TRUE,
                                        ![msg].brokerFailed = @ \/ ~cancelled]
                /\ UNCHANGED errorStream
    /\ pc' = "ack"
    /\ UNCHANGED <<pureVars, procVars, llmClient, call, cancelled, workStream, lastDelivered, pending,
                   msg, request, loaded, procErr, resultStream>>

\* handleMessage returning without the call of acknowledgeMessage
HandleAckNotIssued ==
    /\ pc = "ack"
    /\ pc' = "loop"
    /\ msg' = 0
    /\ request' = Nil
    /\ loaded' = Nil
    /\ procErr' = <<>>
    /\ UNCHANGED <<pureVars, procVars, llmClient, call, cancelled, workStream, lastDelivered,
                   pending, resultStream, errorStream, hist>>

\* handleMessage: acknowledgeMessage, XAck; a failure is logged.  handleMessage
\* returns to the loop.
HandleAck ==
    /\ pc = "ack"
    /\ \E ok \in BrokerOutcomes :
         /\ hist' = [hist EXCEPT ![msg].ack = @ + 1,
                                 ![msg].acked = IF ok THEN @ + 1 ELSE @,
                                 ![msg].brokerFailed = @ \/ (~ok /\ ~cancelled)]
         /\ pending' = IF ok THEN pending \ {msg} ELSE pending
    /\ pc' = "loop"
    /\ msg' = 0
    /\ request' = Nil
    /\ loaded' = Nil
    /\ procErr' = <<>>
    /\ UNCHANGED <<pureVars, procVars, llmClient, call, cancelled, workStream, lastDelivered,
                   resultStream, errorStream>>

WorkerRunning == pc \notin {"new", "startFailed", "crashed", "exited"}

\* Worker.Stop: cancel
Stop ==
    /\ WorkerRunning
    /\ ~cancelled
    /\ cancelled' = TRUE
    /\ hist' = IF msg = 0 THEN hist ELSE [hist EXCEPT ![msg].inFlightAtStop = TRUE]
    /\ UNCHANGED <<pureVars, procVars, llmClient, call, pc, workStream, lastDelivered, pending, msg,
                   request, loaded, procErr, resultStream, errorStream>>

\* main: Stop has slept and returned, the connection is closed, main returns;
\* the consumer loop's goroutine ends wherever it is
Exit ==
    /\ WorkerRunning
    /\ cancelled
    /\ pc' = "exited"
    /\ UNCHANGED <<pureVars, procVars, llmClient, call, cancelled, workStream, lastDelivered, pending,
                   msg, request, loaded, procErr, resultStream, errorStream, hist>>

Next ==
    \/ Publish
    \/ Start
    \/ LoopSelect
    \/ ReadNothing
    \/ ReadDeliver
    \/ HandleParse
    \/ HandleLoad
    \/ HandleRoute
    \/ HandlePublishDecision
    \/ HandlePublishError
    \/ HandleAck
    \/ Stop
    \/ Exit

Spec == Init /\ [][Next]_vars

\* one payload for each way the handling of an entry can go: the payload
\* does not parse; the state is missing; a rule decides; the model is asked; a
\* null node state brings the process down
OrderPayloads ==
    { [data |-> Ptr(WorkJSON(FALSE, "", [shape |-> "null", value |-> ZeroConfig]))],
      [data |-> Ptr(WorkJSON(TRUE, "exec-none", [shape |-> "object", value |-> DetConfig]))],
      [data |-> Ptr(WorkJSON(TRUE, "exec-1", [shape |-> "object", value |-> DetConfig]))],
      [data |-> Ptr(WorkJSON(TRUE, "exec-1", [shape |-> "object", value |-> LLMConfig]))],
      [data |-> Ptr(WorkJSON(TRUE, "exec-null", [shape |-> "object", value |-> DetConfig]))] }

PublishOrder == PublishFrom(OrderPayloads, MaxEntries)

OrderNext ==
    \/ PublishOrder
    \/ Start
    \/ LoopSelect
    \/ ReadNothing
    \/ ReadDeliver
    \/ HandleParse
    \/ HandleLoad
    \/ HandleRoute
    \/ HandlePublishDecision
    \/ HandlePublishError
    \/ HandleAck
    \/ Stop
    \/ Exit

\* the worker on streams of several entries
OrderSpec == Init /\ [][OrderNext]_vars

\* the worker process has ended: main returned after Stop, a panic ended it,
\* or logger.Fatal ended it when Start failed
ProcessEnded == pc \in {"exited", "crashed", "startFailed"}

\* the worker process is started again: a new Worker with a new context, the
\* same configuration and the same worker id; the broker keeps its streams,
\* the group, its last-delivered position and its pending-entries list
Restart ==
    /\ ProcessEnded
    /\ restarts < MaxRestarts
    /\ restarts' = restarts + 1
    /\ pc' = "new"
    /\ cancelled' = FALSE
    /\ startErr' = <<>>
    /\ msg' = 0
    /\ request' = Nil
    /\ loaded' = Nil
    /\ procErr' = <<>>
    /\ lastRead' = "none"
    /\ UNCHANGED <<pureVars, group, llmClient, call, workStream, lastDelivered,
                   pending, resultStream, errorStream, hist>>

PublishRestart == PublishFrom(OrderPayloads, MaxRestartEntries)

RestartNext ==
    \/ PublishRestart
    \/ Start
    \/ LoopSelect
    \/ ReadNothing
    \/ ReadDeliver
    \/ HandleParse
    \/ HandleLoad
    \/ HandleRoute
    \/ HandlePublishDecision
    \/ HandlePublishError
    \/ HandleAck
    \/ Stop
    \/ Exit
    \/ Restart

\* the worker over several lives of its process
RestartSpec == Init /\ [][RestartNext]_vars

\* the steps of the consumer loop's goroutine
LoopStep ==
    \/ LoopSelect
    \/ ReadNothing
    \/ ReadDeliver
    \/ HandleParse
    \/ HandleLoad
    \/ HandleRoute
    \/ HandlePublishDecision
    \/ HandlePublishError
    \/ HandleAck

PublishFair == PublishUpTo(MaxFairEntries)

FairNext ==
    \/ PublishFair
    \/ Start
    \/ LoopSelect
    \/ ReadNothing
    \/ ReadDeliver
    \/ HandleParse
    \/ HandleLoad
    \/ HandleRoute
    \/ HandlePublishDecision
    \/ HandlePublishError
    \/ HandleAck
    \/ Stop
    \/ Exit

\* the goroutine started by Start is scheduled for as long as the process
\* lives, and every call it makes returns, but for the model call that is
\* never answered (pc = "blocked", where no step of the loop is enabled)
FairSpec == Init /\ [][FairNext]_vars /\ WF_vars(LoopStep)

-----------------------------------------------------------------------------
(* Properties of Route, over the call a state records *)

Called == call # Nil
Args == Deref(call)
Res == Deref(call).result
HasConfig == Called /\ Args.config # Nil
Cfg == Deref(Args.config)
EffMode == effectiveMode(Cfg)

\* the rule list of the config's strategy
RulesOf(config) ==
    IF effectiveMode(config) = ModeDeterministic THEN config.rules
    ELSE IF effectiveMode(config) = ModeHybrid THEN config.fast_rules
    ELSE <<>>

\* the rules whose condition has the boolean value true in this state
TrueRules(state, rules) ==
    { i \in 1..Len(rules) :
        LET out == Evaluate(rules[i].condition, prepareStateForCEL(state).vars)
        IN  out.err = "" /\ out.isBool /\ out.val }

\* the rules that are skipped: evaluation error or non-boolean value
SkippedRules(state, rules) ==
    { i \in 1..Len(rules) :
        LET out == Evaluate(rules[i].condition, prepareStateForCEL(state).vars)
        IN  out.err # "" \/ ~out.isBool }

Min(S) == CHOOSE x \in S : \A y \in S : x <= y

\* the config as Route hands it to the strategies passes validateConfig
Accepted(config) == validateConfig(Ptr([config EXCEPT !.mode = effectiveMode(config)])) = ""

\* C4: order-first match.  In deterministic and hybrid mode, when some rule
\* of the strategy's rule list evaluates to boolean true, the decision Route
\* returns has the target of the lowest-indexed such rule and path_taken fast,
\* whatever rules are skipped before or after it; and Route does return a
\* decision whenever the config is accepted and the state projection exists.
C4_OrderFirstMatch ==
    (HasConfig /\ EffMode \in {ModeDeterministic, ModeHybrid}
       /\ TrueRules(Args.state, RulesOf(Cfg)) # {})
    => LET rules == RulesOf(Cfg)
           first == Min(TrueRules(Args.state, rules))
       IN  /\ Res.kind = "decision" =>
                /\ Res.target_node = rules[first].target
                /\ Res.path_taken = "fast"
                /\ Res.evals = first
           /\ (Accepted(Cfg) /\ ~HasNullNode(Args.state)) => Res.kind = "decision"

\* a decision taken on the second rule after the first one was skipped
C4_Witness ==
    /\ HasConfig /\ EffMode \in {ModeDeterministic, ModeHybrid}
    /\ Res.kind = "decision" /\ Res.path_taken = "fast"
    /\ Len(RulesOf(Cfg)) = 2
    /\ 1 \in SkippedRules(Args.state, RulesOf(Cfg))
    /\ TrueRules(Args.state, RulesOf(Cfg)) = {2}
    /\ Res.target_node = RulesOf(Cfg)[2].target

\* C5 as claimed: fallback totality.  For every config that passes validation
\* and every state, Route returns a decision and not an error.
C5_FallbackTotality ==
    (HasConfig /\ Accepted(Cfg)) => Res.kind = "decision"

\* C6 as claimed: every decision Route returns has a non-empty target_node.
C6_TargetNonEmpty ==
    (Called /\ Res.kind = "decision") => Res.target_node # ""

\* the config fails one of the checks the validation section lists
Refused(config) ==
    LET m == effectiveMode(config) IN
    \/ config.fallback = ""
    \/ m \notin {ModeDeterministic, ModeLLM, ModeHybrid}
    \/ /\ m = ModeDeterministic
       /\ \/ config.rules = <<>>
          \/ \E i \in 1..Len(config.rules) :
               config.rules[i].condition = "" \/ config.rules[i].target = ""
    \/ /\ m = ModeLLM
       /\ \/ config.llm_config = Nil
          \/ Deref(config.llm_config).prompt_template = ""
          \/ DOMAIN Deref(config.llm_config).routes = {}
    \/ /\ m = ModeHybrid
       /\ \/ config.fast_rules = <<>>
          \/ config.llm_fallback = Nil
          \/ Deref(config.llm_fallback).prompt_template = ""
          \/ DOMAIN Deref(config.llm_fallback).routes = {}

\* C7: validation refusal.  Route returns an error and no decision, and has
\* evaluated no rule, rendered no template and called no model, whenever the
\* config has an empty fallback, lacks what its mode requires, or names an
\* unknown mode.
C7_ValidationRefusal ==
    (HasConfig /\ Refused(Cfg))
    => /\ Res.kind = "error"
       /\ Res.evals = 0 /\ Res.renders = 0 /\ Res.llmCalls = 0

\* a hybrid config with rules that would match, refused for its missing llm_fallback
C7_Witness ==
    /\ HasConfig /\ EffMode = ModeHybrid /\ Cfg.fallback # ""
    /\ Cfg.llm_fallback = Nil
    /\ TrueRules(Args.state, Cfg.fast_rules) # {}
    /\ Res.kind = "error" /\ Res.err[1] = "invalid config"

\* C8 as claimed: a hybrid config with a fast rule whose condition or target
\* is empty is rejected with an invalid-config error and yields no decision.
C8_HybridRuleFieldsValidated ==
    (HasConfig /\ EffMode = ModeHybrid
       /\ \E i \in 1..Len(Cfg.fast_rules) :
            Cfg.fast_rules[i].condition = "" \/ Cfg.fast_rules[i].target = "")
    => (Res.kind = "error" /\ Res.err[1] = "invalid config")

\* C9 as claimed: Route called with a nil config returns an error value.
C9_NilConfigRejected ==
    (Called /\ Args.config = Nil) => Res.kind = "error"

\* the model client was called and failed
ModelFailed == Called /\ Args.llm # Nil /\ Deref(Args.llm).kind \in {"error", "badtype"}

\* C10: model-failure containment.  In llm mode with a valid config, when the
\* call of the model client returns an error or a response of unexpected type,
\* Route returns a decision with target_node = fallback, path_taken =
\* fallback, mode = llm and a reasoning that starts with "llm call failed".
C10_ModelFailureContained ==
    (HasConfig /\ EffMode = ModeLLM /\ Accepted(Cfg) /\ ModelFailed)
    => /\ Res.kind = "decision"
       /\ Res.target_node = Cfg.fallback
       /\ Res.path_taken = "fallback"
       /\ Res.mode = ModeLLM
       /\ Res.reasoning[1] = "llm call failed: "

\* the client returned a value that is not an *LLMResponse, and Route fell back
C10_Witness ==
    /\ HasConfig /\ EffMode = ModeLLM /\ Accepted(Cfg)
    /\ Args.llm # Nil /\ Deref(Args.llm).kind = "badtype"
    /\ Res.kind = "decision" /\ Res.path_taken = "fallback"
    /\ Res.llmCalls = 1

\* C11 as claimed: a router built without a model client degrades to the
\* fallback route.  For an accepted config, in llm mode and in hybrid mode
\* after no fast rule matched, Route returns a decision with target_node =
\* config.fallback and path_taken = fallback.
C11_UnavailableClientFallsBack ==
    (HasConfig /\ llmClient = Nil /\ Accepted(Cfg)
       /\ \/ EffMode = ModeLLM
          \/ /\ EffMode = ModeHybrid
             /\ TrueRules(Args.state, Cfg.fast_rules) = {}
             /\ ~HasNullNode(Args.state))
    => /\ Res.kind = "decision"
       /\ Res.target_node = Cfg.fallback
       /\ Res.path_taken = "fallback"

\* the model client was called and returned this text
Answered == Called /\ Args.llm # Nil /\ Deref(Args.llm).kind = "response"
Answer == Deref(Args.llm).content

\* the keys of routes the response matches at one of the three steps
KeysMatching(response, routes) ==
    LET normalized == TrimSpace(ToLower(response)) IN
    { k \in DOMAIN routes :
        \/ k = normalized
        \/ ToLower(k) = normalized
        \/ Contains(normalized, ToLower(k)) }

\* C12: in every decision Route returns, path_taken is fast only if a rule of
\* the rule phase is true, and the target is then that of the first such rule;
\* slow only if the model answered and the answer matches a key of routes, and
\* the target is then routes[key]; fallback only if no rule is true and the
\* model was not called, failed, or gave an answer that matches no key, and
\* the target is then config.fallback; and mode is the effective mode.
C12_PathTakenInvariant ==
    (HasConfig /\ Res.kind = "decision")
    => LET rules == RulesOf(Cfg)
           hits == TrueRules(Args.state, rules)
           keys == IF Answered THEN KeysMatching(Answer, routesOf(Args.config)) ELSE {}
       IN  /\ Res.mode = EffMode
           /\ Res.path_taken \in {"fast", "slow", "fallback"}
           /\ Res.path_taken = "fast" =>
                (hits # {} /\ Res.target_node = rules[Min(hits)].target)
           /\ Res.path_taken = "slow" =>
                (hits = {} /\ \E k \in keys : Res.target_node = routesOf(Args.config)[k])
           /\ Res.path_taken = "fallback" =>
                (hits = {} /\ keys = {} /\ Res.target_node = Cfg.fallback)

\* hybrid mode, no rule true, the model answers " Yes\n": slow path to routes["yes"]
C12_Witness ==
    /\ HasConfig /\ EffMode = ModeHybrid /\ Res.kind = "decision"
    /\ TrueRules(Args.state, Cfg.fast_rules) = {}
    /\ Answered /\ Answer = <<" ", "Y", "e", "s", "\n">>
    /\ Res.path_taken = "slow" /\ Res.mode = ModeHybrid
    /\ Res.target_node = "Y"

\* the prompt template of the config's strategy
PromptTemplateOf(config) ==
    IF effectiveMode(config) = ModeLLM THEN Deref(config.llm_config).prompt_template
    ELSE Deref(config.llm_fallback).prompt_template

\* C13: a prompt template that fails to render.  With an accepted config and
\* a model client present, in llm mode Route returns the error "failed to
\* render prompt" and no decision; in hybrid mode, when no fast rule is true,
\* it returns a decision with target_node = config.fallback and path_taken =
\* fallback.  In both modes the model client is not called.
C13_RenderFailure ==
    (HasConfig /\ EffMode \in {ModeLLM, ModeHybrid} /\ Accepted(Cfg)
       /\ llmClient # Nil /\ PromptTemplateOf(Cfg) = "{{#if n}}")
    => /\ EffMode = ModeLLM =>
            /\ Res.kind = "error"
            /\ Res.err[1] = "failed to render prompt"
            /\ Res.renders = 1 /\ Res.llmCalls = 0
       /\ (EffMode = ModeHybrid /\ TrueRules(Args.state, Cfg.fast_rules) = {}
             /\ ~HasNullNode(Args.state)) =>
            /\ Res.kind = "decision"
            /\ Res.target_node = Cfg.fallback
            /\ Res.path_taken = "fallback"
            /\ Res.mode = ModeHybrid
            /\ Res.renders = 1 /\ Res.llmCalls = 0

\* hybrid mode, the only fast rule false, the template does not parse: the
\* render was attempted and the decision is the fallback
C13_Witness ==
    /\ HasConfig /\ EffMode = ModeHybrid /\ Accepted(Cfg) /\ llmClient # Nil
    /\ PromptTemplateOf(Cfg) = "{{#if n}}"
    /\ Len(Cfg.fast_rules) = 1 /\ Res.evals = 1
    /\ Res.kind = "decision" /\ Res.path_taken = "fallback"
    /\ Res.reasoning[1] = "failed to render prompt: "
    /\ Res.renders = 1 /\ Res.llmCalls = 0

\* the mode the config is routed in
InferredMode(config) ==
    IF config.mode # "" THEN config.mode
    ELSE IF config.fast_rules # <<>> /\ config.llm_fallback # Nil THEN ModeHybrid
    ELSE IF config.llm_config # Nil THEN ModeLLM
    ELSE ModeDeterministic

\* the validation errors that only the strategy of a mode reports
ErrorsOfMode(m) ==
    CASE m = ModeDeterministic ->
           { "deterministic mode requires rules", "rule: condition is required",
             "rule: target is required" }
      [] m = ModeLLM ->
           { "llm mode requires llm_config", "llm_config.prompt_template is required",
             "llm_config.routes is required" }
      [] m = ModeHybrid ->
           { "hybrid mode requires fast_rules", "hybrid mode requires llm_fallback",
             "llm_fallback.prompt_template is required",
             "llm_fallback.routes is required" }
      [] OTHER -> {}

\* C15: mode inference.  With mode absent the config is routed as hybrid if
\* fast_rules is non-empty and llm_fallback is present, otherwise as llm if
\* llm_config is present, otherwise as deterministic, and then a config without
\* rules fails validation; with mode present it is routed in that mode
\* whatever other fields are present.  The mode shows in the decision's mode,
\* in the validation error, and in the unknown-mode error.
C15_ModeInference ==
    HasConfig =>
      LET m == InferredMode(Cfg) IN
      /\ Res.kind = "decision" => Res.mode = m
      /\ (Res.kind = "error" /\ Res.err[1] = "unknown routing mode")
           <=> m \notin {ModeDeterministic, ModeLLM, ModeHybrid}
      /\ (Res.kind = "error" /\ Res.err[1] = "invalid config" /\ Cfg.fallback # "")
           => Res.err[2] \in ErrorsOfMode(m)
      /\ (Cfg.mode = "" /\ m = ModeDeterministic /\ Cfg.rules = <<>>)
           => (Res.kind = "error" /\ Res.err[1] = "invalid config")

\* mode absent, all four strategy fields present: routed as hybrid
C15_Witness ==
    /\ HasConfig /\ Cfg.mode = ""
    /\ Cfg.rules # <<>> /\ Cfg.fast_rules # <<>>
    /\ Cfg.llm_config # Nil /\ Cfg.llm_fallback # Nil
    /\ Res.kind = "decision" /\ Res.mode = ModeHybrid

-----------------------------------------------------------------------------
(* Properties of matchLLMResponse, over the direct call a state records *)

Matched == matchCall # Nil
MArgs == Deref(matchCall)
Normalized == TrimSpace(ToLower(MArgs.response))

\* the keys that match at each step
ExactKeys == { k \in DOMAIN MArgs.routes : k = Normalized }
FoldKeys == { k \in DOMAIN MArgs.routes : ToLower(k) = ToLower(Normalized) }
PartKeys == { k \in DOMAIN MArgs.routes : Contains(Normalized, ToLower(k)) }

\* the step that decides, and the keys it may pick
DecidingKeys ==
    IF ExactKeys # {} THEN ExactKeys
    ELSE IF FoldKeys # {} THEN FoldKeys
    ELSE PartKeys

\* C14: matching precedence on the trimmed, lowercased response.  The match
\* is a key equal to it if there is one; otherwise a key equal to it up to
\* case if there is one; otherwise a key whose lowercased text it contains;
\* the result is routes[key] for a key of the first step that has any, and
\* Route then returns that target with path_taken = slow; when no step has a
\* key there is no match and Route returns the fallback decision.
C14_MatchPrecedence ==
    Matched =>
      /\ MArgs.out.matched = (DecidingKeys # {})
      /\ MArgs.out.matched =>
           \E k \in DecidingKeys : MArgs.out.target = MArgs.routes[k]
      /\ llmClient # Nil =>
           /\ MArgs.result.kind = "decision"
           /\ MArgs.result.llmCalls = 1
           /\ IF DecidingKeys # {}
                THEN /\ MArgs.result.path_taken = "slow"
                     /\ \E k \in DecidingKeys :
                          MArgs.result.target_node = MArgs.routes[k]
                ELSE /\ MArgs.result.path_taken = "fallback"
                     /\ MArgs.result.target_node = MatchConfig(MArgs.routes).fallback

\* the answer "Yes" with the keys "YES" and "ye", "ye" first in iteration
\* order: no key is equal, "YES" is equal up to case and wins over "ye"
C14_Witness ==
    /\ Matched /\ llmClient # Nil
    /\ MArgs.response = <<"Y", "e", "s">>
    /\ DOMAIN MArgs.routes = { <<"Y", "E", "S">>, <<"y", "e">> }
    /\ MArgs.order[1] = <<"y", "e">>
    /\ MArgs.out.target = "T3"
    /\ MArgs.result.path_taken = "slow" /\ MArgs.result.target_node = "T3"

-----------------------------------------------------------------------------
(* Properties of the worker *)

Delivered == 1..lastDelivered

\* handleMessage is over for entry e: it returned, or the process died of a
\* panic while handling it
Finished(e) == e \in Delivered /\ (msg # e \/ pc = "crashed")

Item(e) == Deref(workStream[e].data)

Parses(e) == workStream[e].data # Nil /\ Item(e).wellFormed

\* the state store holds a graph state under the item's execution id
HasStoredState(e) ==
    /\ Item(e).execution_id \in DOMAIN StateStore
    /\ StateStore[Item(e).execution_id].json
    /\ StateStore[Item(e).execution_id].fits

HasValidDeterministicConfig(e) ==
    /\ Item(e).config.shape = "object"
    /\ effectiveMode(Item(e).config.value) = ModeDeterministic
    /\ Accepted(Item(e).config.value)

\* C1 as claimed: once the handling of a delivered entry is over, exactly one
\* acknowledgement has been issued for it, whatever the outcome of the item.
C1_ExactlyOneAck ==
    \A e \in Delivered : Finished(e) => hist[e].ack = 1

\* C2 as claimed: if no append failed at the broker, the handling of a
\* delivered entry makes exactly one append in total to the result stream and
\* the error stream, whatever the outcome of parsing, loading and routing.
C2_ExactlyOneAppend ==
    \A e \in Delivered :
        (Finished(e) /\ ~hist[e].addFailed) => hist[e].res + hist[e].err = 1

\* C3 as claimed: for a work item with a stored state and a valid
\* deterministic config, handled while the broker and the store answer, the
\* worker ends with exactly one entry on the result stream, none on the error
\* stream and exactly one acknowledgement.
C3_EndToEnd ==
    \A e \in Delivered :
        (Finished(e) /\ Parses(e) /\ HasStoredState(e)
           /\ HasValidDeterministicConfig(e)
           /\ ~hist[e].addFailed /\ ~hist[e].loadFailed)
        => (hist[e].res = 1 /\ hist[e].err = 0 /\ hist[e].ack = 1)

\* the consumer loop where the read errors of the broker are transient: of
\* the reads issued while an entry is available, one delivers it
LiveSpec == FairSpec /\ SF_vars(ReadDeliver)

\* C16 as claimed: no delivered entry ends the consumer loop.  Whatever the
\* payload, the config and the stored state of an entry, a null entry in
\* node_states included, the worker process is not brought down while
\* handling it.
C16_ItemNeverEndsLoop ==
    \A e \in Delivered : ~(msg = e /\ pc = "crashed")

\* the consumer loop is over: it returned, or the process ended
LoopOver == pc \in {"stopped", "crashed", "exited"}

\* C17: once Stop has cancelled Worker.ctx, no group-read delivers an entry any
\* more, and the consumer loop comes to its end, unless the handling of the
\* current entry never returns (a model call that is never answered).  A read
\* made under the cancelled context fails, the loop sleeps, and the select of
\* the next iteration returns.
C17_LoopExitsAfterStop ==
    /\ [][cancelled => lastDelivered' = lastDelivered]_vars
    /\ (cancelled ~> (LoopOver \/ pc = "blocked"))

\* the loop has returned after Stop with an entry of the stream never read
C17_Witness ==
    /\ cancelled /\ pc = "stopped"
    /\ lastDelivered < Len(workStream)

\* C18 as claimed: every network call made for an item runs under Worker.ctx,
\* so a state load or a model call made once Stop has cancelled that context
\* is not answered: it fails with the context's error.
C18_CallsObserveCancel ==
    \A e \in Delivered : ~hist[e].ranCancelled

\* C19 as claimed: graceful drain.  An entry handleMessage was working on when
\* Stop cancelled has, once handleMessage has returned and unless the broker
\* itself failed a call, one record on the result or the error stream (if its
\* payload parses) and one acknowledgement that reached the broker.
C19_GracefulDrain ==
    \A e \in Delivered :
        (hist[e].inFlightAtStop /\ msg # e /\ ~hist[e].brokerFailed)
        => /\ Parses(e) => hist[e].res + hist[e].err = 1
           /\ hist[e].acked = 1

\* C20 as claimed: a model call carries a timeout, so the consumer loop is
\* never held by a model call that is not answered.
C20_ModelCallTimesOut ==
    pc # "blocked"

\* the appends and acknowledgements made for entry e
Effects(h) == <<h.res, h.err, h.ack, h.acked>>

\* C21: one item in flight, in delivery order.  The entry being handled is
\* the last one delivered; when an entry is delivered, an acknowledgement has
\* been issued for every entry delivered before it; and no step appends or
\* acknowledges for an entry other than the one being handled.  So the appends
\* and acknowledgements of the worker follow the delivery order.
C21_InDeliveryOrder ==
    /\ [](msg \in {0, lastDelivered})
    /\ [](\A e \in Delivered : e < lastDelivered => hist[e].ack = 1)
    /\ [][\A e \in 1..MaxEntries :
            Effects(hist'[e]) # Effects(hist[e]) => (e = msg /\ e = lastDelivered)]_vars

\* the second entry is being handled after the first one got its record and
\* its acknowledgement
C21_Witness ==
    /\ lastDelivered = 2 /\ msg = 2 /\ pc = "publishDecision"
    /\ hist[1].res + hist[1].err = 1 /\ hist[1].acked = 1
    /\ Effects(hist[2]) = <<0, 0, 0, 0>>

\* C22 as claimed: for every delivered entry, an acknowledgement is issued
\* only once the append of the entry's decision or error record has been
\* attempted.
C22_AckAfterAppend ==
    \A e \in Delivered :
        hist[e].ack > 0 => (hist[e].res + hist[e].err >= 1 \/ hist[e].addFailed)

\* C23: the worker never requeues and never re-reads: XReadGroup returns an
\* entry at most once, also over a restart of the process; a read delivers
\* the entry after the last delivered one, never one of the pending list; an
\* entry leaves the pending list only by the acknowledgement of the entry in
\* flight; and a step that appends to the input stream is no step of the
\* worker
C23_NeverRedelivered ==
    /\ [](\A e \in 1..MaxEntries : hist[e].reads <= 1)
    /\ [][(msg' # msg /\ msg' # 0) =>
             (msg' = lastDelivered + 1 /\ msg' \notin pending)]_vars
    /\ [][\A e \in pending \ pending' : e = msg /\ hist'[e].acked > hist[e].acked]_vars
    /\ [][workStream' # workStream =>
             UNCHANGED <<pc, msg, lastDelivered, pending, resultStream,
                         errorStream, hist>>]_vars

\* C23 witness: after a restart the loop reads again while an entry delivered
\* in the first life is still pending, unacknowledged and handled once
C23_Witness ==
    /\ restarts = 1
    /\ pc = "read"
    /\ 1 \in pending
    /\ hist[1].reads = 1
    /\ hist[1].ack = 0

\* the consumer loop of this life of the process has been started
LoopStarted == pc \notin {"new", "startFailed"}

\* C24: Start ensures the consumer group before the loop starts: whenever the
\* loop has been started the group exists and Start returned nil; the answer
\* of an existing group never fails Start; when Start fails it returns the
\* wrapped error of the broker, and that life of the process issues no read,
\* delivers nothing, appends nothing and acknowledges nothing
C24_GroupEnsuredBeforeLoop ==
    /\ [](LoopStarted => (group = "present" /\ startErr = <<>>))
    /\ [](pc = "startFailed" =>
            /\ Len(startErr) = 3
            /\ startErr[1] = "failed to ensure consumer group"
            /\ startErr[2] = "failed to create consumer group"
            /\ startErr[3] \notin {"OK", BusyGroup})
    /\ [][pc = "startFailed" =>
            /\ pc' \in {"startFailed", "new"}
            /\ UNCHANGED <<lastDelivered, pending, msg, resultStream,
                           errorStream, hist>>]_vars
    /\ [][(pc = "new" /\ pc' # "new") =>
            (pc' = "loop" \/ (pc' = "startFailed" /\ group' = group))]_vars

\* C24 witness: the process was started again after its first life had read
\* an entry, so the second Start found the group existing, and its loop is
\* about to read
C24_Witness ==
    /\ restarts = 1
    /\ pc = "read"
    /\ hist[1].reads = 1
    /\ group = "present"
    /\ startErr = <<>>

\* entry e was delivered and handleMessage ran for it: up to the issue of its
\* acknowledgement, or up to the panic or the unanswered model call that ends
\* the loop inside its handling
Handled(e) ==
    /\ hist[e].reads = 1
    /\ \/ hist[e].ack >= 1
       \/ (msg = e /\ pc \in {"crashed", "blocked"})

\* C25: neither an empty read nor a read error stops the consumer loop: a read
\* that delivers nothing takes the loop back to its select; and an entry that
\* is available to the running loop is delivered and handled, whatever the
\* number of empty reads and failed reads before, unless the worker is
\* cancelled first
C25_ReadsNeverStopLoop ==
    /\ [][(pc = "read" /\ pc' # "read") => pc' \in {"loop", "parse", "exited"}]_vars
    /\ \A e \in 1..MaxFairEntries :
          (pc \in {"loop", "read"} /\ lastDelivered = e - 1 /\ Len(workStream) >= e)
              ~> (cancelled \/ Handled(e))

\* C25 witness: with an entry available and the worker not cancelled, a read
\* has returned nothing, and the loop is back at its select
C25_Witness ==
    /\ ~cancelled
    /\ lastRead = "nothing"
    /\ pc = "loop"
    /\ lastDelivered < Len(workStream)

\* C26: the compile caches never double-insert.  Since the last ClearCache a
\* text has been compiled and inserted at most once, whatever the interleaving
\* of the goroutines that ask for it; the cache holds exactly the texts
\* inserted since; a text that does not compile is never inserted; and a call
\* that began with its text in the cache, with no ClearCache since, is served
\* by the first lookup, without the write lock and without compiling
C26_NoDoubleInsert ==
    /\ \A k \in Kinds : \A t \in CacheTexts(k) :
          /\ inserts[k][t] <= 1
          /\ inserts[k][t] = 1 <=> t \in DOMAIN cache[k]
          /\ Compile(k, t).err # "" => inserts[k][t] = 0
    /\ \A g \in Goroutines :
          gor[g].sawCached => (~gor[g].compiled /\ ~gor[g].missed)
    /\ \A g \in Goroutines, h \in Goroutines :
          (/\ g # h
           /\ gor[g].compiled /\ gor[h].compiled
           /\ gor[g].kind = gor[h].kind)
             => gor[g].text # gor[h].text

\* C26 witness: two goroutines asked for the same text, both missed it under
\* the read lock, one compiled and inserted it, the other found it under the
\* write lock and compiled nothing
C26_Witness ==
    /\ gor["g1"].pc = "done" /\ gor["g2"].pc = "done"
    /\ gor["g1"].kind = gor["g2"].kind /\ gor["g1"].text = gor["g2"].text
    /\ gor["g1"].missed /\ gor["g2"].missed
    /\ gor["g1"].compiled /\ ~gor["g2"].compiled
    /\ inserts[gor["g1"].kind][gor["g1"].text] = 1

\* C27: what Evaluate and Render return is what compiling the text and running
\* the result returns, whether the text was cached, missed, inserted by
\* another goroutine meanwhile, or the cache just cleared
C27_CacheTransparent ==
    \A g \in Goroutines :
       gor[g].out # Nil =>
          Deref(gor[g].out) = Uncached(gor[g].kind, gor[g].text, Deref(gor[g].arg))

\* C27 witness: a call was served from a cache that holds another text too
C27_Witness ==
    \E g \in Goroutines :
       /\ gor[g].pc = "done"
       /\ gor[g].sawCached /\ ~gor[g].missed
       /\ Cardinality(DOMAIN cache[gor[g].kind]) = 2
       /\ Deref(gor[g].out).err = ""

\* C28 as claimed: the construction of another router, in the process that
\* has constructed one, succeeds
C28_SecondRouterConstructs == ~ctorPanicked

\* the failures of the steps of processRoutingRequest before the publishing
\* of the decision: state missing or corrupt, config of invalid shape,
\* routing error
HardFailures ==
    {"failed to load state", "failed to convert state",
     "failed to parse node config", "routing failed"}

\* C29 as claimed: on a hard failure at a step of a parsed item, and unless
\* the broker itself failed a call, the worker appends one ErrorRecord with
\* the item's execution_id and node_id to the error stream and nothing to the
\* result stream, and invokes no later step: after the failure only the
\* publishing of the error and the acknowledgement follow, and Route is not
\* called when a step before it failed
C29_HardFailureRecorded ==
    \A e \in Delivered :
        (hist[e].failure \in HardFailures /\ ~hist[e].brokerFailed)
        => /\ hist[e].res = 0
           /\ hist[e].failure # "routing failed" => ~hist[e].routed
           /\ msg = e => pc \in {"publishError", "ack"}
           /\ (msg # e \/ pc = "ack") =>
                 /\ hist[e].err = 1
                 /\ \E i \in 1..Len(errorStream) :
                       /\ errorStream[i].execution_id = Item(e).execution_id
                       /\ errorStream[i].node_id = Item(e).node_id
                       /\ errorStream[i].error[1] = hist[e].failure

\* C30 as claimed: in the data given to the template engine, for every key x
\* of the state's inputs, the path state.inputs.x and the bare name x both
\* resolve, and to the same value
C30_BothPathsResolve ==
    dataCall # Nil =>
       \A x \in DOMAIN Deref(dataCall).state.inputs :
          /\ Resolve(Deref(dataCall).data, <<"state", "inputs", x>>) # Nil
          /\ Resolve(Deref(dataCall).data, <<x>>) # Nil
          /\ Resolve(Deref(dataCall).data, <<"state", "inputs", x>>)
               = Resolve(Deref(dataCall).data, <<x>>)

\* C31 as claimed: the state binding of the template data is the projection
\* the evaluator gets: it has exactly the fields graph_id, status, inputs and
\* node_states, and equals the evaluator's state
C31_SameProjection ==
    dataCall # Nil =>
       /\ DOMAIN Deref(dataCall).data["state"] =
             {"graph_id", "status", "inputs", "node_states"}
       /\ Deref(dataCall).data["state"] = Deref(dataCall).celVars.state

\* a step in which goroutine g makes a Validate
ValidateStep(g) ==
    gor[g].pc = "idle" /\ gor'[g].pc = "done" /\ gor'[g].op = "validate"

\* C32: Validate is a pure check.  A ValidateExpression or ValidateTemplate
\* step leaves both caches and the count of insertions as they were, whether
\* the text compiles or not and whether it is cached or not; it runs no
\* program and no template; it returns the compile error of the text
C32_ValidateIsPure ==
    [][\A g \in Goroutines :
         ValidateStep(g) =>
            /\ cache' = cache
            /\ inserts' = inserts
            /\ ~gor'[g].ran /\ gor'[g].out = Nil
            /\ gor'[g].verr = Ptr(Compile(gor'[g].kind, gor'[g].text).err)]_vars

\* C32 witness: a Validate of a text that compiles has returned nil, the
\* text is not in its cache, and the cache holds another text
C32_Witness ==
    \E g \in Goroutines :
       /\ gor[g].pc = "done" /\ gor[g].op = "validate"
       /\ gor[g].verr = Ptr("")
       /\ gor[g].text \notin DOMAIN cache[gor[g].kind]
       /\ cache[gor[g].kind] # <<>>

\* C33 as claimed: when the call of the model client fails (a timeout is
\* one of the errors it returns), Route calls the client a second time, and
\* returns the fallback only after two calls
C33_RetriesOnceOnTimeout ==
    (/\ Called /\ Args.llm # Nil
     /\ Deref(Args.llm).kind = "error"
     /\ Res.kind = "decision")
    => Res.llmCalls = 2

\* the config was written with prompt_template and routes next to fallback
DocumentedLLMShape(obj) ==
    /\ obj["mode"] = ModeLLM
    /\ {"prompt_template", "routes", "fallback"} \subseteq DOMAIN obj

\* C34 as claimed: a config in the documented llm shape passes validation and
\* is routed by the llm strategy: with a model client configured, the prompt
\* is rendered, the model is called once, and the decision is that of the
\* llm mode
C34_DocumentedLLMShapeRoutes ==
    (/\ docCall # Nil
     /\ DocumentedLLMShape(Deref(docCall).json)
     /\ llmClient # Nil
     /\ ~HasNullNode(Deref(docCall).state)
     /\ Deref(docCall).llm.kind # "silent")
    => /\ Deref(docCall).result.kind = "decision"
       /\ Deref(docCall).result.mode = ModeLLM
       /\ Deref(docCall).result.renders = 1
       /\ Deref(docCall).result.llmCalls = 1

\* the model client answered with a text that matches a key of these routes
ModelMatched(spec) ==
    /\ Answered
    /\ KeysMatching(Answer, Deref(spec).routes) # {}

C36_EachItemProcessedOnce ==
    (pc # "crashed" /\ restarts = 0 /\ ~cancelled) =>
       \A e \in Delivered :
          /\ hist[e].reads = 1
          /\ (Finished(e) /\ ~hist[e].brokerFailed) =>
                /\ hist[e].res + hist[e].err = 1
                /\ hist[e].res <= 1
                /\ hist[e].acked = 1

\* C37 as claimed: at-least-once processing.  An entry's acknowledgement has
\* reached the broker only if a decision or error record was appended for it;
\* an entry whose handling is over with no record appended is still in the
\* pending-entries list.  Stated for the entries whose payload parses, the ones
\* a record can be written for
C37_AckOnlyAfterRecord ==
    \A e \in Delivered : Parses(e) =>
       /\ hist[e].acked >= 1 => hist[e].res + hist[e].err >= 1
       /\ (Finished(e) /\ hist[e].res + hist[e].err = 0) => e \in pending

\* C38 as claimed: Route is a function of the state, the config and the model
\* response.  Whatever the order in which the routes map is iterated in
\* another run, matchLLMResponse returns the same target for the same response
\* and the same routes, and Route returns the same decision
C38_RouteDeterministic ==
    matchCall # Nil =>
       \A other \in Orders(Deref(matchCall).routes) :
          /\ matchLLMResponse(Deref(matchCall).response, Deref(matchCall).routes, other)
               = Deref(matchCall).out
          /\ Route(MatchState, Ptr(MatchConfig(Deref(matchCall).routes)), llmClient,
                   [kind |-> "response", content |-> Deref(matchCall).response], other)
               = Deref(matchCall).result

\* the decision append of entry e failed after Route had returned a decision
DecisionAppendFailed(e) == hist[e].failure = "failed to publish decision"

\* a step of the consumer loop's goroutine from the place named
StepFrom(place) == pc = place /\ pc' \notin {place, "exited"}

\* C39: a failed decision append.  When the XAdd of publishDecision fails, the
\* item goes to publishError with the error "failed to publish decision";
\* publishError makes one XAdd of the item's ErrorRecord to the error stream
\* and, whether that XAdd succeeds or fails, handleMessage goes on to
\* acknowledgeMessage, which issues one XAck; the result stream is not
\* appended to again for the item, and handling never returns to
\* publishDecision
C39_FailedDecisionAppend ==
    /\ [](\A e \in Delivered :
            DecisionAppendFailed(e) =>
               /\ hist[e].routed
               /\ hist[e].res = 0 /\ hist[e].err <= 1 /\ hist[e].ack <= 1
               /\ msg = e => pc \in {"publishError", "ack", "exited"}
               /\ msg # e => hist[e].ack = 1)
    /\ [][(StepFrom("publishDecision") /\ resultStream' = resultStream) =>
             /\ pc' = "publishError"
             /\ msg' = msg /\ request' = request
             /\ DecisionAppendFailed(msg)'
             /\ Head(procErr') = "failed to publish decision"
             /\ errorStream' = errorStream]_vars
    /\ [][(StepFrom("publishError") /\ DecisionAppendFailed(msg)) =>
             /\ pc' = "ack"
             /\ msg' = msg
             /\ resultStream' = resultStream
             /\ \/ errorStream' = Append(errorStream, ErrorRecord(Deref(request), procErr))
                \/ errorStream' = errorStream /\ hist'[msg].addFailed]_vars
    /\ [][(StepFrom("ack") /\ DecisionAppendFailed(msg)) =>
             /\ hist'[msg].ack = hist[msg].ack + 1
             /\ resultStream' = resultStream
             /\ errorStream' = errorStream]_vars

\* C39 witness: the decision append of the entry in flight failed at the
\* broker, the error record was appended, and the entry is about to be
\* acknowledged
C39_Witness ==
    /\ msg # 0 /\ pc = "ack"
    /\ DecisionAppendFailed(msg)
    /\ ~cancelled
    /\ hist[msg].err = 1 /\ hist[msg].res = 0
    /\ Len(errorStream) >= 1
    /\ Head(errorStream[Len(errorStream)].error) = "failed to publish decision"

\* a ClearCache step: a cache operation that begins no call, returns from
\* none and constructs no router
ClearCacheStep ==
    /\ cacheOps' = cacheOps + 1
    /\ \A g \in Goroutines : gor'[g].pc = gor[g].pc
    /\ helpers' = helpers /\ ctorPanicked' = ctorPanicked

\* C40: the compile caches.  Every key of a cache is a text that was handed
\* to Evaluate or Render and that compiles, and its entry is the compiled
\* form of exactly that text; a text that does not compile has never been
\* inserted, a call with such a text returns the compile error without
\* running anything, having missed the cache; and a ClearCache step leaves
\* the cache it clears empty and the other cache as it was
C40_CacheHoldsCompiledTexts ==
    /\ [](\A k \in Kinds :
            /\ \A t \in DOMAIN cache[k] :
                  /\ t \in CacheTexts(k)
                  /\ Compile(k, t).err = ""
                  /\ cache[k][t] = Compile(k, t).program
                  /\ cache[k][t].src = t
            /\ \A t \in CacheTexts(k) :
                  Compile(k, t).err # "" =>
                     t \notin DOMAIN cache[k] /\ inserts[k][t] = 0)
    /\ [](\A g \in Goroutines :
            (gor[g].pc = "done" /\ gor[g].op = "call"
             /\ Compile(gor[g].kind, gor[g].text).err # "") =>
               /\ gor[g].missed /\ ~gor[g].compiled /\ ~gor[g].ran
               /\ Deref(gor[g].out).err = Compile(gor[g].kind, gor[g].text).err)
    /\ [][ClearCacheStep =>
             \E k \in Kinds :
                /\ cache'[k] = <<>>
                /\ \A j \in Kinds \ {k} : cache'[j] = cache[j]]_vars

\* C40 witness: a call has returned the compile error of a text that does
\* not compile, and the cache of that kind holds a text that compiles and not
\* the failing one
C40_Witness ==
    \E g \in Goroutines :
       /\ gor[g].pc = "done" /\ gor[g].op = "call"
       /\ Compile(gor[g].kind, gor[g].text).err # ""
       /\ Deref(gor[g].out).err # ""
       /\ cache[gor[g].kind] # <<>>
       /\ gor[g].text \notin DOMAIN cache[gor[g].kind]

====
